---- MODULE Spec2Model ----
(***************************************************************************)
(* Client-side caching and offline-resilience subsystem of The Local Guide *)
(* (frontend/src/services: cacheService, cacheManager, dataPreloader,      *)
(* offlineFallbackService).                                                *)
(*                                                                         *)
(* Units.  Time is counted in hours (the source counts milliseconds); the  *)
(* sub-hour stale times of needsRefresh are given in minutes and compared  *)
(* after conversion.  Sizes are counted in MiB.                            *)
(*                                                                         *)
(* localStorage is the function store from keys to stored texts.  A stored *)
(* text is modelled by what JSON.parse makes of it:                        *)
(*   absent   no item under the key (getItem returns null)                 *)
(*   corrupt  a text JSON.parse rejects, or that parses to null            *)
(*   raw      a text that parses to a value without envelope fields        *)
(*            (the number updateLastSync writes, the bare preferences      *)
(*            object preferencesService writes)                            *)
(*   env      a text that parses to {data, timestamp, expiration}          *)
(***************************************************************************)
EXTENDS Integers, Sequences, FiniteSets, TLC

VARIABLES store,            \* localStorage
          now,              \* Date.now()
          online,           \* navigator.onLine
          last,             \* the last call made and what it returned
          preload,          \* the DataPreloader.preloadEssentialData call in flight
          cleanupInterval,  \* CacheManager.cleanupInterval (0 is null)
          timers,           \* the interval timers the window holds
          timerSeq,         \* number of timers created so far
          errorListeners,   \* 'error' listeners the manager has registered
          sweeps            \* periodic cleanups in flight, by the await they are at

vars == <<store, now, online, last, preload, cleanupInterval, timers, timerSeq,
          errorListeners, sweeps>>

----------------------------------------------------------------------------
(* Bounds *)

MaxElapsed == 2      \* hours the clock runs on after the session starts
MaxEntries == 2      \* items localStorage holds at a time in Spec
MaxTimers == 2       \* initialize() calls in SpecManager
MaxSweeps == 1       \* periodic cleanups in flight at a time in SpecManager

----------------------------------------------------------------------------
(* cacheService.ts: keys, TTLs, values *)

\* A key is the sequence of its segments, so that startsWith / includes
\* are computed on the key rather than looked up.
KEY_RECOMMENDATIONS == <<"local-guide-", "recommendations">>
KEY_ESSENTIAL_DATA == <<"local-guide-", "essential-data">>
KEY_TRANSLATIONS == <<"local-guide-", "translations">>
KEY_USER_PREFERENCES == <<"userPreferences">>
KEY_LAST_SYNC == <<"local-guide-", "last-sync">>

\* Object.entries(CACHE_KEYS), in declaration order
CACHE_KEYS == <<KEY_RECOMMENDATIONS, KEY_ESSENTIAL_DATA, KEY_TRANSLATIONS,
                KEY_USER_PREFERENCES, KEY_LAST_SYNC>>

Keys == {CACHE_KEYS[i] : i \in 1..Len(CACHE_KEYS)}

EXPIRATION_RECOMMENDATIONS == 24
EXPIRATION_ESSENTIAL_DATA == 168
EXPIRATION_TRANSLATIONS == 720
EXPIRATION_USER_PREFERENCES == 8760

CACHE_EXPIRATION(key) ==
  CASE key = KEY_RECOMMENDATIONS -> EXPIRATION_RECOMMENDATIONS
    [] key = KEY_ESSENTIAL_DATA -> EXPIRATION_ESSENTIAL_DATA
    [] key = KEY_TRANSLATIONS -> EXPIRATION_TRANSLATIONS
    [] key = KEY_USER_PREFERENCES -> EXPIRATION_USER_PREFERENCES

\* JavaScript values as the code sees them: null, undefined, or a value
Null == [t |-> "null"]
Undefined == [t |-> "undefined"]
Val(v) == [t |-> "val", v |-> v]

Absent == [kind |-> "absent", data |-> "-", timestamp |-> 0, expiration |-> 0]
Corrupt == [kind |-> "corrupt", data |-> "-", timestamp |-> 0, expiration |-> 0]
Raw(d) == [kind |-> "raw", data |-> d, timestamp |-> 0, expiration |-> 0]

\* JSON.stringify of a CacheItem
CacheItem(d, ts, exp) == [kind |-> "env", data |-> d, timestamp |-> ts, expiration |-> exp]

\* JSON.parse(text) throws (SyntaxError), or yields null so that the first
\* property access on the result throws (TypeError)
ParseThrows(text) == text.kind = "corrupt"

\* parsed.expiration / parsed.timestamp; 0 stands for undefined as well
\* (both are falsy, and no envelope the code writes has either field 0)
ParsedExpiration(text) == IF text.kind = "env" THEN text.expiration ELSE 0
ParsedTimestamp(text) == IF text.kind = "env" THEN text.timestamp ELSE 0
ParsedData(text) == IF text.kind = "env" THEN Val(text.data) ELSE Undefined

\* Date.now() > parsed.expiration, false when expiration is undefined
IsExpired(text, t) == ParsedExpiration(text) # 0 /\ t > ParsedExpiration(text)


----------------------------------------------------------------------------
(* Values the services cache *)

\* A string that is searched is the sequence of its characters.
Str_Kachori == <<"K", "a", "c", "h", "o", "r", "i">>
Str_SilkHouse == <<"S", "i", "l", "k", " ", "H", "o", "u", "s", "e">>
Str_Chai == <<"C", "h", "a", "i">>
Str_snack == <<"s", "n", "a", "c", "k">>
Str_Saree == <<"S", "a", "r", "e", "e">>
Str_tea == <<"t", "e", "a">>
Str_KACH == <<"K", "A", "C", "H">>
Str_Hello == <<" ", "H", "e", "l", "l", "o", " ">>
Str_hello == <<"h", "e", "l", "l", "o">>
Str_bye == <<"b", "y", "e">>
Str_recommendations == <<"r", "e", "c", "o", "m", "m", "e", "n", "d", "a", "t", "i", "o", "n", "s">>
Str_Recommendations == <<"R", "e", "c", "o", "m", "m", "e", "n", "d", "a", "t", "i", "o", "n", "s">>
Str_preferences == <<"p", "r", "e", "f", "e", "r", "e", "n", "c", "e", "s">>
Str_translation == <<"t", "r", "a", "n", "s", "l", "a", "t", "i", "o", "n">>
Str_speech == <<"s", "p", "e", "e", "c", "h">>
Str_maps == <<"m", "a", "p", "s">>

\* RecommendationItem, reduced to the fields the cache layer reads;
\* hasTags is FALSE for an item cached without the tags field.
Kachori == [name |-> Str_Kachori, category |-> "street_food",
            description |-> Str_snack, tags |-> <<Str_snack>>, hasTags |-> TRUE]
SilkHouse == [name |-> Str_SilkHouse, category |-> "shops",
              description |-> Str_Saree, tags |-> << >>, hasTags |-> FALSE]
ChaiStall == [name |-> Str_Chai, category |-> "street_food",
              description |-> Str_tea, tags |-> <<Str_tea, Str_Kachori>>, hasTags |-> TRUE]

\* what the callers of the cache* methods pass in
PreferenceObjects == {"prefsHindi"}
\* a translation's cache key `${source}-${target}-${text}` is the triple
TranslationKeys == {<<"auto", "hi", Str_hello>>}
TranslationTexts == {"", "namaste"}

PutValues(key) ==
  CASE key = KEY_RECOMMENDATIONS -> {<< >>, <<Kachori, SilkHouse>>}
    [] key = KEY_ESSENTIAL_DATA -> {"essentialData"}
    [] key = KEY_USER_PREFERENCES -> PreferenceObjects

----------------------------------------------------------------------------
(* CacheService *)

\* clearExpiredItems with a catch branch that leaves the item where it is
clearExpiredItems_keepsUnparsable(st, t) ==
  [k \in Keys |->
     IF st[k].kind = "absent" THEN st[k]
     ELSE IF ParseThrows(st[k]) THEN st[k]
     ELSE IF t > ParsedExpiration(st[k]) /\ st[k].kind = "env" THEN Absent
     ELSE st[k]]

\* clearExpiredItems: over Object.values(CACHE_KEYS); an item that does not
\* parse is removed by the catch branch.
clearExpiredItems(st, t) ==
  [k \in Keys |->
     IF st[k].kind = "absent" THEN st[k]
     ELSE IF ParseThrows(st[k]) THEN Absent
     ELSE IF t > ParsedExpiration(st[k]) /\ st[k].kind = "env" THEN Absent
     ELSE st[k]]

\* position of a cache in the list sorted by timestamp, oldest first;
\* Array.prototype.sort is stable, so ties keep CACHE_KEYS order
SortRank(st, idxs, i) ==
  Cardinality({j \in idxs :
     \/ ParsedTimestamp(st[CACHE_KEYS[j]]) < ParsedTimestamp(st[CACHE_KEYS[i]])
     \/ /\ ParsedTimestamp(st[CACHE_KEYS[j]]) = ParsedTimestamp(st[CACHE_KEYS[i]])
        /\ j < i})

\* handleStorageQuotaExceeded: clear expired items, then remove the oldest
\* half of the remaining caches, user preferences excepted
handleStorageQuotaExceeded(st, t) ==
  LET s1 == clearExpiredItems(st, t)
      cacheInfo == {i \in 1..Len(CACHE_KEYS) : s1[CACHE_KEYS[i]].kind # "absent"}
      half == (Cardinality(cacheInfo) + 1) \div 2
      oldest == {i \in cacheInfo : SortRank(s1, cacheInfo, i) < half}
  IN [k \in Keys |->
        IF /\ \E i \in oldest : CACHE_KEYS[i] = k
           /\ k # KEY_USER_PREFERENCES
        THEN Absent ELSE s1[k]]

\* whether handleStorageQuotaExceeded throws: JSON.parse(cache.item!) is not
\* guarded, so an item that is still there after clearExpiredItems and does
\* not parse raises out of the handler, and out of setCache's catch block
handleStorageQuotaExceededThrows(st, t) ==
  \E k \in Keys : LET s1 == clearExpiredItems(st, t)
                  IN s1[k].kind # "absent" /\ ParseThrows(s1[k])

\* setCache: quotaExceeded is whether localStorage.setItem throws
\* QuotaExceededError for this write
setCache(st, key, data, expiration, t, quotaExceeded) ==
  IF quotaExceeded
  THEN handleStorageQuotaExceeded(st, t)
  ELSE [st EXCEPT ![key] = CacheItem(data, t, t + expiration)]

\* getCache with the expiry test written >= instead of >
getCache_expiredAtExpiration(st, key, t) ==
  IF st[key].kind = "absent" THEN [ret |-> Null, store |-> st]
  ELSE IF ParseThrows(st[key]) THEN [ret |-> Null, store |-> st]
  ELSE IF st[key].kind = "env" /\ t >= st[key].expiration
       THEN [ret |-> Null, store |-> [st EXCEPT ![key] = Absent]]
  ELSE [ret |-> ParsedData(st[key]), store |-> st]

\* getCache: the value returned and the store it leaves
getCache(st, key, t) ==
  IF st[key].kind = "absent" THEN [ret |-> Null, store |-> st]
  ELSE IF ParseThrows(st[key]) THEN [ret |-> Null, store |-> st]
  ELSE IF st[key].kind = "env" /\ t > st[key].expiration
       THEN [ret |-> Null, store |-> [st EXCEPT ![key] = Absent]]
  ELSE [ret |-> ParsedData(st[key]), store |-> st]

\* a JavaScript value that is falsy in `x || y` (of the values that occur:
\* null, undefined and the empty string)
Falsy(v) == v.t # "val" \/ v.v = ""

\* cacheTranslation
cacheTranslation(st, tkey, translation, t, quotaExceeded) ==
  LET g == getCache(st, KEY_TRANSLATIONS, t)
      translations == IF g.ret.t # "val" THEN << >> ELSE g.ret.v
      updated == [x \in (DOMAIN translations) \cup {tkey} |->
                    IF x = tkey THEN translation ELSE translations[x]]
  IN setCache(g.store, KEY_TRANSLATIONS, updated, EXPIRATION_TRANSLATIONS, t, quotaExceeded)

\* getCachedTranslation: translations?.[key] || null
getCachedTranslation(st, tkey, t) ==
  LET g == getCache(st, KEY_TRANSLATIONS, t)
      looked == IF g.ret.t # "val" THEN Undefined
                ELSE IF tkey \in DOMAIN g.ret.v THEN Val(g.ret.v[tkey]) ELSE Undefined
  IN [ret |-> IF Falsy(looked) THEN Null ELSE looked, store |-> g.store]


\* updateLastSync: localStorage.setItem outside any try; threw is whether the
\* QuotaExceededError of the write reaches the caller
updateLastSync(st, t, quotaExceeded) ==
  IF quotaExceeded THEN [threw |-> TRUE, store |-> st]
  ELSE [threw |-> FALSE, store |-> [st EXCEPT ![KEY_LAST_SYNC] = Raw(t)]]

\* getLastSync: null (Null) or the number stored; an empty or damaged text
\* gives parseInt's NaN, which is falsy where it is tested
getLastSync(st) ==
  IF st[KEY_LAST_SYNC].kind = "raw" THEN Val(st[KEY_LAST_SYNC].data) ELSE Null

\* needsRefresh(maxAge), maxAge in minutes
needsRefresh(st, t, maxAgeMinutes) ==
  LET lastSync == getLastSync(st)
  IN IF lastSync.t # "val" \/ lastSync.v = 0 THEN TRUE
     ELSE (t - lastSync.v) * 60 > maxAgeMinutes

----------------------------------------------------------------------------
(* CacheService.getCacheInfo *)

\* navigator.storage.estimate(): {usage, quota} in MiB; NoEstimate is a
\* browser without the API, or an estimate() that rejects
NoEstimate == [supported |-> FALSE, usage |-> 0, quota |-> 0]
Estimate(u, q) == [supported |-> TRUE, usage |-> u, quota |-> q]

\* estimates the platform may report: around the 0.8 / 0.85 / 0.9 thresholds
\* of a 100 MiB quota, and above the default maxSize with a large quota
StorageEstimates ==
  {NoEstimate, Estimate(0, 0), Estimate(51, 1000)} \cup
  {Estimate(u, 100) : u \in {10, 80, 81, 85, 86, 90, 91}}

\* the estimates a sweep is run against: no estimate (nothing is over any
\* limit), one within the default limits and one over them
WithinAndOver == {NoEstimate, Estimate(40, 100), Estimate(86, 100)}

\* getCacheInfo: {used, quota}; percentage = used / quota is kept as the
\* fraction, and compared by cross-multiplication
getCacheInfo(est) ==
  IF est.supported
  THEN [used |-> est.usage, quota |-> est.quota]
  ELSE [used |-> 0, quota |-> 0]

\* the comparison written >= instead of >
PercentageAbove_orEqual(info, num) ==
  info.quota > 0 /\ info.used * 100 >= num * info.quota

\* info.percentage > num / 100, with percentage = 0 when quota is 0
PercentageAbove(info, num) ==
  info.quota > 0 /\ info.used * 100 > num * info.quota

----------------------------------------------------------------------------
(* CacheManager: cleanup *)

DEFAULT_MAX_AGE == 24
DEFAULT_MAX_SIZE == 50
MAX_STORAGE_PERCENTAGE == 85

\* performCleanup({}) and performCleanup({preserveEssential: true})
DefaultOptions ==
  [maxAge |-> DEFAULT_MAX_AGE, maxSize |-> DEFAULT_MAX_SIZE, preserveEssential |-> TRUE]

\* options performCleanup is called with: the defaults, tight limits, and
\* preserveEssential switched off
CleanupOptions ==
  {DefaultOptions,
   [maxAge |-> 1, maxSize |-> 0, preserveEssential |-> TRUE],
   [maxAge |-> EXPIRATION_ESSENTIAL_DATA, maxSize |-> 2, preserveEssential |-> FALSE]}

\* key.startsWith('local-guide-')
StartsWithLocalGuide(key) == Len(key) >= 1 /\ key[1] = "local-guide-"

\* key.includes(part)
Includes(key, part) ==
  \E i \in 0..(Len(key) - Len(part)) :
     \A j \in 1..Len(part) : key[i + j] = part[j]

essentialKeys ==
  {<<"userPreferences">>, <<"local-guide-", "essential-data">>, <<"local-guide-", "last-sync">>}

\* isEssentialKey with 'local-guide-last-sync' left out of the list
isEssentialKey_withoutLastSync(key) ==
  \E essentialKey \in essentialKeys \ {<<"local-guide-", "last-sync">>} :
     Includes(key, essentialKey)

isEssentialKey(key) == \E essentialKey \in essentialKeys : Includes(key, essentialKey)

\* item.length of a stored text, in MiB
ItemLength(key, text) ==
  CASE text.kind = "absent" -> 0
    [] text.kind = "corrupt" -> 1
    [] text.kind = "raw" -> 1
    [] text.kind = "env" /\ key = KEY_RECOMMENDATIONS -> 1 + Len(text.data)
    [] text.kind = "env" /\ key = KEY_TRANSLATIONS -> 1 + Cardinality(DOMAIN text.data)
    [] OTHER -> 2

\* the filter the three phases share: an item under the app's prefix that
\* is not an essential key being preserved
IsEligible(st, k, preserveEssential) ==
  /\ st[k].kind # "absent"
  /\ StartsWithLocalGuide(k)
  /\ ~(preserveEssential /\ isEssentialKey(k))

Eligible(st, preserveEssential) == {k \in Keys : IsEligible(st, k, preserveEssential)}

\* cleanExpiredItems with a catch branch that leaves the item in place
cleanExpiredItems_keepsCorrupted(st, t, preserveEssential) ==
  [k \in Keys |->
     IF ~IsEligible(st, k, preserveEssential) THEN st[k]
     ELSE IF ParseThrows(st[k]) THEN st[k]
     ELSE IF IsExpired(st[k], t) THEN Absent
     ELSE st[k]]

\* cleanExpiredItems: the catch branch removes what does not parse
cleanExpiredItems(st, t, preserveEssential) ==
  [k \in Keys |->
     IF ~IsEligible(st, k, preserveEssential) THEN st[k]
     ELSE IF ParseThrows(st[k]) THEN Absent
     ELSE IF IsExpired(st[k], t) THEN Absent
     ELSE st[k]]

\* cleanByAge: a text that does not parse takes timestamp 0
cleanByAge(st, t, maxAge, preserveEssential) ==
  LET cutoffTime == t - maxAge
  IN [k \in Keys |->
        IF /\ IsEligible(st, k, preserveEssential)
           /\ ParsedTimestamp(st[k]) < cutoffTime
        THEN Absent ELSE st[k]]

RECURSIVE SumLength(_, _)
SumLength(st, ks) ==
  IF ks = {} THEN 0
  ELSE LET k == CHOOSE x \in ks : TRUE
       IN ItemLength(k, st[k]) + SumLength(st, ks \ {k})

\* the eligible keys sorted oldest first; keyOrder is Object.keys(localStorage),
\* whose order the platform chooses, and the sort is stable
SortedByTimestamp(st, ks, keyOrder) ==
  LET pos(k) == CHOOSE i \in 1..Len(keyOrder) : keyOrder[i] = k
      rank(k) == Cardinality({x \in ks :
                    \/ ParsedTimestamp(st[x]) < ParsedTimestamp(st[k])
                    \/ /\ ParsedTimestamp(st[x]) = ParsedTimestamp(st[k])
                       /\ pos(x) < pos(k)})
  IN [i \in 1..Cardinality(ks) |-> CHOOSE k \in ks : rank(k) = i - 1]

RECURSIVE RemoveUntilUnder(_, _, _, _)
RemoveUntilUnder(st, items, currentSize, maxSize) ==
  IF items = << >> \/ currentSize <= maxSize THEN st
  ELSE RemoveUntilUnder([st EXCEPT ![Head(items)] = Absent], Tail(items),
                        currentSize - ItemLength(Head(items), st[Head(items)]), maxSize)

cleanBySize(st, maxSize, preserveEssential, keyOrder) ==
  LET ks == Eligible(st, preserveEssential)
  IN RemoveUntilUnder(st, SortedByTimestamp(st, ks, keyOrder), SumLength(st, ks), maxSize)

\* storageInfo.used > maxSize || storageInfo.percentage > MAX_STORAGE_PERCENTAGE
OverLimit(info, maxSize) ==
  info.used > maxSize \/ PercentageAbove(info, MAX_STORAGE_PERCENTAGE)

\* Object.keys(localStorage) restricted to S, in the orders the platform may
\* give them
KeyOrders(S) ==
  {f \in [1..Cardinality(S) -> S] : \A i, j \in 1..Cardinality(S) : i # j => f[i] # f[j]}

\* performCleanup up to its second getCacheInfo: the expire phase, and the
\* age phase when the first getCacheInfo (est1) is over the limit
AfterAgePhase(st, t, opts, est1) ==
  LET s1 == cleanExpiredItems(st, t, opts.preserveEssential)
  IN IF OverLimit(getCacheInfo(est1), opts.maxSize)
     THEN cleanByAge(s1, t, opts.maxAge, opts.preserveEssential)
     ELSE s1

\* the rest of performCleanup: the size phase when the second getCacheInfo
\* (est2) is over the limit; keyOrder is the key order the phase reads
SizePhase(st, opts, est2, keyOrder) ==
  IF OverLimit(getCacheInfo(est2), opts.maxSize)
  THEN cleanBySize(st, opts.maxSize, opts.preserveEssential, keyOrder)
  ELSE st

\* performEmergencyCleanup that passes over the translations
performEmergencyCleanup_sparesTranslations(st) ==
  [k \in Keys |->
     IF /\ st[k].kind # "absent" /\ StartsWithLocalGuide(k) /\ ~isEssentialKey(k)
        /\ k # KEY_TRANSLATIONS
     THEN Absent ELSE st[k]]

\* performEmergencyCleanup: every key under the prefix that is not essential
\* is removed
performEmergencyCleanup(st) ==
  [k \in Keys |->
     IF st[k].kind # "absent" /\ StartsWithLocalGuide(k) /\ ~isEssentialKey(k)
     THEN Absent ELSE st[k]]

----------------------------------------------------------------------------
(* CacheManager: lifecycle.  mgr is [cleanupInterval, timers]: the handle   *)
(* the manager keeps (0 is null) and the interval timers the window holds  *)

\* startPeriodicCleanup without the clearInterval of the earlier handle
startPeriodicCleanup_keepsEarlier(mgr, id) ==
  [cleanupInterval |-> id, timers |-> mgr.timers \cup {id}]

\* startPeriodicCleanup: an interval left from an earlier initialize() is
\* cleared, and the handle id of the new one kept
startPeriodicCleanup(mgr, id) ==
  [cleanupInterval |-> id,
   timers |-> (IF mgr.cleanupInterval # 0
               THEN mgr.timers \ {mgr.cleanupInterval} ELSE mgr.timers) \cup {id}]

\* destroy that forgets the handle without clearing the interval
destroy_keepsTimer(mgr) ==
  [cleanupInterval |-> 0, timers |-> mgr.timers, threw |-> FALSE]

\* destroy
destroy(mgr) ==
  IF mgr.cleanupInterval # 0
  THEN [cleanupInterval |-> 0, timers |-> mgr.timers \ {mgr.cleanupInterval},
        threw |-> FALSE]
  ELSE [cleanupInterval |-> mgr.cleanupInterval, timers |-> mgr.timers, threw |-> FALSE]

----------------------------------------------------------------------------
(* CacheManager: statistics and health *)

Min(a, b) == IF a < b THEN a ELSE b

\* getCacheStats; oldestItem / newestItem are Null or Val(timestamp)
getCacheStats(st, t) ==
  LET cacheKeys == {k \in Keys : st[k].kind # "absent" /\ StartsWithLocalGuide(k)}
      parsedKeys == {k \in cacheKeys : ~ParseThrows(st[k])}
      stamps == {ParsedTimestamp(st[k]) : k \in parsedKeys}
  IN [totalItems |-> Cardinality(cacheKeys),
      totalSize |-> SumLength(st, cacheKeys),
      oldestItem |-> IF stamps = {} THEN Null
                     ELSE Val(CHOOSE x \in stamps : \A y \in stamps : x <= y),
      newestItem |-> IF stamps = {} THEN Null
                     ELSE Val(CHOOSE x \in stamps : \A y \in stamps : x >= y),
      expiredItems |-> Cardinality({k \in cacheKeys :
                          ParseThrows(st[k]) \/ IsExpired(st[k], t)})]

WARN_CRITICAL == "Storage is nearly full (>90%)"
WARN_HIGH == "Storage usage is high (>80%)"
WARN_EXPIRED == "expired cache items found"
WARN_OLD == "Some cache items are very old (>7 days)"
REC_CRITICAL == "Clear old cache data or reduce cache size"
REC_HIGH == "Consider clearing old cache data"
REC_EXPIRED == "Run cache cleanup to remove expired items"
REC_OLD == "Consider refreshing old cache data"

EXPIRED_WARNING_COUNT == 10
OLD_ITEM_AGE == 168

checkStorageHealth(st, t, est) ==
  LET storageInfo == getCacheInfo(est)
      cacheStats == getCacheStats(st, t)
      critical == PercentageAbove(storageInfo, 90)
      high == ~critical /\ PercentageAbove(storageInfo, 80)
      expired == cacheStats.expiredItems > EXPIRED_WARNING_COUNT
      old == /\ cacheStats.oldestItem.t = "val"
             /\ cacheStats.oldestItem.v # 0
             /\ t - cacheStats.oldestItem.v > OLD_ITEM_AGE
      w1 == IF critical THEN <<WARN_CRITICAL>> ELSE IF high THEN <<WARN_HIGH>> ELSE << >>
      r1 == IF critical THEN <<REC_CRITICAL>> ELSE IF high THEN <<REC_HIGH>> ELSE << >>
      w2 == IF expired THEN <<WARN_EXPIRED>> ELSE << >>
      r2 == IF expired THEN <<REC_EXPIRED>> ELSE << >>
      w3 == IF old THEN <<WARN_OLD>> ELSE << >>
      r3 == IF old THEN <<REC_OLD>> ELSE << >>
  IN [healthy |-> ~critical,
      warnings |-> w1 \o w2 \o w3,
      recommendations |-> r1 \o r2 \o r3]

----------------------------------------------------------------------------
(* preferencesService, recommendationService, cacheService.preloadEssentialData *)

\* `x && ...` on what a getter of objects or arrays returned: an object or an
\* array is truthy, null and undefined are not
TruthyObject(v) == v.t = "val"

\* what the API returns when the request succeeds
FetchedPreferences == "prefsTelugu"
FetchedRecommendations == <<Kachori, ChaiStall>>
DefaultEssentialData == "defaultEssentialData"

\* preferencesService.getPreferences: when the request (netOk) and the
\* setItem (not quotaExceeded) go through, the bare object is stored; if
\* either throws, the catch branch parses whatever 'userPreferences' holds,
\* envelope or not, and throws when there is nothing or it does not parse
getPreferences(st, netOk, quotaExceeded) ==
  IF netOk /\ ~quotaExceeded
  THEN [threw |-> FALSE, ret |-> FetchedPreferences,
        store |-> [st EXCEPT ![KEY_USER_PREFERENCES] = Raw(FetchedPreferences)]]
  ELSE LET cachedPrefs == st[KEY_USER_PREFERENCES]
       IN CASE cachedPrefs.kind = "raw" ->
                 [threw |-> FALSE, ret |-> cachedPrefs.data, store |-> st]
            [] cachedPrefs.kind = "env" ->
                 [threw |-> FALSE, store |-> st,
                  ret |-> [data |-> cachedPrefs.data, timestamp |-> cachedPrefs.timestamp,
                           expiration |-> cachedPrefs.expiration]]
            [] OTHER -> [threw |-> TRUE, ret |-> "-", store |-> st]

\* cacheService.preloadEssentialData: q1 is whether the setItem of
\* cacheEssentialData throws, q2 whether that of updateLastSync does (the
\* try around them swallows it)
cacheService_preloadEssentialData(st, t, q1, q2) ==
  LET g == getCache(st, KEY_ESSENTIAL_DATA, t)
  IN IF TruthyObject(g.ret) /\ ~needsRefresh(g.store, t, EXPIRATION_ESSENTIAL_DATA * 60)
     THEN g.store
     ELSE updateLastSync(
            setCache(g.store, KEY_ESSENTIAL_DATA, DefaultEssentialData,
                     EXPIRATION_ESSENTIAL_DATA, t, q1),
            t, q2).store

----------------------------------------------------------------------------
(* DataPreloader *)

TASK_NAMES ==
  <<"User Preferences", "Popular Recommendations", "Recommendation Categories",
    "Essential Cache Data">>

Tasks == 1..Len(TASK_NAMES)

\* preloadUserPreferences up to its await
preloadUserPreferencesStart(st, t) ==
  LET g == getCache(st, KEY_USER_PREFERENCES, t)
  IN [status |-> IF TruthyObject(g.ret) /\ ~needsRefresh(g.store, t, 10)
                 THEN "fulfilled" ELSE "fetching",
      store |-> g.store]

\* preloadUserPreferences once prefetchQuery has settled: the queryFn is
\* getPreferences then cacheUserPreferences; rejects is whether prefetchQuery
\* passes a failure of the queryFn on to the caller
preloadUserPreferencesSettle(st, t, netOk, q0, q, rejects) ==
  LET p == getPreferences(st, netOk, q0)
  IN IF ~p.threw
     THEN [status |-> "fulfilled",
           store |-> setCache(p.store, KEY_USER_PREFERENCES, p.ret,
                              EXPIRATION_USER_PREFERENCES, t, q)]
     ELSE IF ~rejects THEN [status |-> "fulfilled", store |-> p.store]
     ELSE LET g == getCache(p.store, KEY_USER_PREFERENCES, t)
          IN [status |-> IF TruthyObject(g.ret) THEN "fulfilled" ELSE "rejected",
              store |-> g.store]

\* the Query Cache entry under the preferences key once the prefetch has
\* settled: what the queryFn returned, which is the response or, when the
\* request failed, whatever getPreferences parsed out of 'userPreferences',
\* a bare object or a whole cache item; when the queryFn threw, what the
\* catch branch set from the cache, if it ran and found something
queryDataOfPreferences(st, t, netOk, q0, rejects) ==
  LET p == getPreferences(st, netOk, q0)
      g == getCache(p.store, KEY_USER_PREFERENCES, t)
  IN IF ~p.threw
     THEN IF ~(netOk /\ ~q0) /\ st[KEY_USER_PREFERENCES].kind = "env"
          THEN [shape |-> "cacheItem", data |-> p.ret.data,
                timestamp |-> p.ret.timestamp, expiration |-> p.ret.expiration]
          ELSE [shape |-> "value", value |-> p.ret]
     ELSE IF rejects /\ TruthyObject(g.ret)
          THEN [shape |-> "value", value |-> g.ret.v]
          ELSE [shape |-> "none"]

\* preloadPopularRecommendations up to its await
preloadPopularRecommendationsStart(st, t) ==
  LET g == getCache(st, KEY_RECOMMENDATIONS, t)
  IN [status |-> IF /\ TruthyObject(g.ret)
                    /\ Len(g.ret.v) > 0
                    /\ ~needsRefresh(g.store, t, 30)
                 THEN "fulfilled" ELSE "fetching",
      store |-> g.store]

\* preloadPopularRecommendations once prefetchQuery has settled
preloadPopularRecommendationsSettle(st, t, netOk, q, rejects) ==
  IF netOk
  THEN [status |-> "fulfilled",
        store |-> setCache(st, KEY_RECOMMENDATIONS, FetchedRecommendations,
                           EXPIRATION_RECOMMENDATIONS, t, q)]
  ELSE IF ~rejects THEN [status |-> "fulfilled", store |-> st]
  ELSE LET g == getCache(st, KEY_RECOMMENDATIONS, t)
       IN [status |-> IF TruthyObject(g.ret) /\ Len(g.ret.v) > 0
                      THEN "fulfilled" ELSE "rejected",
           store |-> g.store]

\* the Query Cache entry under the recommendations key once the prefetch has
\* settled
queryDataOfRecommendations(st, t, netOk, rejects) ==
  LET g == getCache(st, KEY_RECOMMENDATIONS, t)
  IN IF netOk THEN [shape |-> "value", value |-> FetchedRecommendations]
     ELSE IF rejects /\ TruthyObject(g.ret) /\ Len(g.ret.v) > 0
          THEN [shape |-> "value", value |-> g.ret.v]
          ELSE [shape |-> "none"]

\* preloadRecommendationCategories with a catch that throws the error on
preloadRecommendationCategories_rethrows(netOk, rejects) ==
  IF ~netOk /\ rejects THEN "rejected" ELSE "fulfilled"

\* preloadRecommendationCategories: each category's prefetch sits in its own
\* try whose catch only logs, and the tasks are joined with allSettled
preloadRecommendationCategories(netOk, rejects) == "fulfilled"

\* preloadResult with the majority test written errors.length < tasks.length / 2
preloadResult_strictMajority(statuses, lastSyncThrew) ==
  LET failedTasks == SelectSeq(<<1, 2, 3, 4>>, LAMBDA i : statuses[i] = "rejected")
      doneTasks == SelectSeq(<<1, 2, 3, 4>>, LAMBDA i : statuses[i] = "fulfilled")
      errors == [j \in 1..Len(failedTasks) |-> <<"Failed to preload", TASK_NAMES[failedTasks[j]]>>]
      preloadedItems == [j \in 1..Len(doneTasks) |-> TASK_NAMES[doneTasks[j]]]
  IN IF lastSyncThrew
     THEN [success |-> FALSE,
           errors |-> Append(errors, <<"Preload failed", "QuotaExceededError">>),
           preloadedItems |-> preloadedItems]
     ELSE [success |-> 2 * Len(errors) < Len(TASK_NAMES),
           errors |-> errors,
           preloadedItems |-> preloadedItems]

\* the result preloadEssentialData returns once the tasks have settled:
\* statuses are those of the four tasks, lastSyncThrew is whether
\* cacheService.updateLastSync() threw
preloadResult(statuses, lastSyncThrew) ==
  LET failedTasks == SelectSeq(<<1, 2, 3, 4>>, LAMBDA i : statuses[i] = "rejected")
      doneTasks == SelectSeq(<<1, 2, 3, 4>>, LAMBDA i : statuses[i] = "fulfilled")
      errors == [j \in 1..Len(failedTasks) |-> <<"Failed to preload", TASK_NAMES[failedTasks[j]]>>]
      preloadedItems == [j \in 1..Len(doneTasks) |-> TASK_NAMES[doneTasks[j]]]
  IN IF lastSyncThrew
     THEN [success |-> FALSE,
           errors |-> Append(errors, <<"Preload failed", "QuotaExceededError">>),
           preloadedItems |-> preloadedItems]
     ELSE [success |-> 2 * Len(errors) <= Len(TASK_NAMES),
           errors |-> errors,
           preloadedItems |-> preloadedItems]

----------------------------------------------------------------------------
(* OfflineFallbackService *)

UpperCase == <<"A", "B", "C", "D", "E", "F", "G", "H", "I", "J", "K", "L", "M",
               "N", "O", "P", "Q", "R", "S", "T", "U", "V", "W", "X", "Y", "Z">>
LowerCase == <<"a", "b", "c", "d", "e", "f", "g", "h", "i", "j", "k", "l", "m",
               "n", "o", "p", "q", "r", "s", "t", "u", "v", "w", "x", "y", "z">>

\* String.prototype.toLowerCase on a string of these characters
toLowerCase(str) ==
  [i \in 1..Len(str) |->
     IF \E j \in 1..Len(UpperCase) : UpperCase[j] = str[i]
     THEN LowerCase[CHOOSE j \in 1..Len(UpperCase) : UpperCase[j] = str[i]]
     ELSE str[i]]

\* String.prototype.trim
RECURSIVE trim(_)
trim(str) ==
  IF str = << >> THEN str
  ELSE IF Head(str) = " " THEN trim(Tail(str))
  ELSE IF str[Len(str)] = " " THEN trim(SubSeq(str, 1, Len(str) - 1))
  ELSE str

\* the search term with the query taken as typed
searchTerm_asTyped(query) == query

\* const searchTerm = query.toLowerCase()
searchTerm(query) == toLowerCase(query)

\* getOfflineData: the four getters in the order they are called
getOfflineData(st, t) ==
  LET r == getCache(st, KEY_RECOMMENDATIONS, t)
      p == getCache(r.store, KEY_USER_PREFERENCES, t)
      tr == getCache(p.store, KEY_TRANSLATIONS, t)
      e == getCache(tr.store, KEY_ESSENTIAL_DATA, t)
  IN [recommendations |-> IF TruthyObject(r.ret) THEN r.ret.v ELSE << >>,
      preferences |-> p.ret,
      translations |-> IF TruthyObject(tr.ret) THEN tr.ret.v ELSE << >>,
      essentialData |-> e.ret,
      store |-> e.store]

\* isAvailableOffline(feature)
isAvailableOffline(st, t, feature) ==
  LET data == getOfflineData(st, t)
  IN [threw |-> FALSE,
      ret |-> CASE feature = "recommendations" -> Len(data.recommendations) > 0
                [] feature = "preferences" -> data.preferences # Null
                [] feature = "translations" -> DOMAIN data.translations # {}
                [] feature = "essential" -> data.essentialData # Null
                [] OTHER -> FALSE,
      store |-> data.store]

\* the filter on the search query: name, description or some tag includes
\* the term; an item cached without tags has tags?.some(...) undefined
MatchesQuery(item, term) ==
  \/ Includes(toLowerCase(item.name), term)
  \/ Includes(toLowerCase(item.description), term)
  \/ /\ item.hasTags
     /\ \E i \in 1..Len(item.tags) : Includes(toLowerCase(item.tags[i]), term)

\* getOfflineRecommendations({category, query, limit}); a parameter left out
\* is Undefined
getOfflineRecommendations(st, t, params) ==
  LET category == IF params.category = Undefined THEN "all" ELSE params.category.v
      limit == IF params.limit = Undefined THEN 10 ELSE params.limit.v
      g == getCache(st, KEY_RECOMMENDATIONS, t)
      recommendations == IF TruthyObject(g.ret) THEN g.ret.v ELSE << >>
      byCategory == IF category # "all"
                    THEN SelectSeq(recommendations, LAMBDA item : item.category = category)
                    ELSE recommendations
      byQuery == IF params.query # Undefined /\ params.query.v # << >>
                 THEN SelectSeq(byCategory,
                                LAMBDA item : MatchesQuery(item, searchTerm(params.query.v)))
                 ELSE byCategory
  IN [threw |-> FALSE,
      ret |-> SubSeq(byQuery, 1, Min(limit, Len(byQuery))),
      store |-> g.store]

\* getOfflineTranslation(text, targetLanguage, sourceLanguage): the cache key
\* is `${sourceLanguage || 'auto'}-${targetLanguage}-${text.toLowerCase().trim()}`
getOfflineTranslation(st, t, text, targetLanguage, sourceLanguage) ==
  LET cacheKey == <<IF sourceLanguage = Undefined \/ sourceLanguage.v = "" THEN "auto"
                    ELSE sourceLanguage.v,
                    targetLanguage, trim(toLowerCase(text))>>
      g == getCachedTranslation(st, cacheKey, t)
  IN [threw |-> FALSE, ret |-> g.ret, store |-> g.store]

\* getOfflineErrorMessage(feature): the base message and what follows it
getOfflineErrorMessage(st, t, feature) ==
  LET essential == isAvailableOffline(st, t, "essential")
      lower == toLowerCase(feature)
  IN [ret |-> <<feature, "is not available offline.",
                IF ~essential.ret
                THEN "Please connect to the internet to use this feature."
                ELSE CASE lower = Str_translation ->
                            "You can still browse cached recommendations and use saved preferences."
                       [] lower = Str_recommendations ->
                            "Please connect to the internet to get fresh recommendations."
                       [] lower = Str_speech ->
                            "Speech-to-text requires an internet connection."
                       [] OTHER -> "Some features require an internet connection.">>,
      store |-> essential.store]

\* Array.from(new Set(categories)): first occurrences, in order
RECURSIVE Distinct(_)
Distinct(seq) ==
  IF seq = << >> THEN << >>
  ELSE LET rest == Distinct(SubSeq(seq, 1, Len(seq) - 1))
           x == seq[Len(seq)]
       IN IF \E i \in 1..Len(rest) : rest[i] = x THEN rest ELSE Append(rest, x)

\* getOfflineCapabilities with canUsePreferences written !!data.preferences
getOfflineCapabilities_truthyPreferences(st, t) ==
  LET data == getOfflineData(st, t)
  IN [threw |-> FALSE,
      ret |-> [canBrowseRecommendations |-> Len(data.recommendations) > 0,
               canUsePreferences |-> TruthyObject(data.preferences),
               canTranslate |-> DOMAIN data.translations # {},
               canUseSpeech |-> FALSE,
               availableCategories |->
                 Distinct([i \in 1..Len(data.recommendations) |->
                             data.recommendations[i].category]),
               availableTranslations |-> Cardinality(DOMAIN data.translations),
               lastSyncTime |-> getLastSync(data.store)],
      store |-> data.store]

\* getOfflineCapabilities
getOfflineCapabilities(st, t) ==
  LET data == getOfflineData(st, t)
  IN [threw |-> FALSE,
      ret |-> [canBrowseRecommendations |-> Len(data.recommendations) > 0,
               canUsePreferences |-> data.preferences # Null,
               canTranslate |-> DOMAIN data.translations # {},
               canUseSpeech |-> FALSE,
               availableCategories |->
                 Distinct([i \in 1..Len(data.recommendations) |->
                             data.recommendations[i].category]),
               availableTranslations |-> Cardinality(DOMAIN data.translations),
               lastSyncTime |-> getLastSync(data.store)],
      store |-> data.store]

\* handleOfflineError(error, feature); error is Null, Undefined or
\* Val([message |-> ...]); reading error.message of null or undefined throws
\* a TypeError
handleOfflineError(st, t, onLine, error, feature) ==
  LET lower == toLowerCase(feature)
  IN IF ~onLine
     THEN LET c == getOfflineCapabilities(st, t)
          IN CASE lower = Str_recommendations ->
                    LET r == getOfflineRecommendations(c.store, t,
                               [category |-> Undefined, query |-> Undefined, limit |-> Undefined])
                    IN [threw |-> FALSE, store |-> r.store,
                        ret |-> [canFallback |-> c.ret.canBrowseRecommendations,
                                 fallbackData |-> Val(r.ret),
                                 message |-> IF c.ret.canBrowseRecommendations
                                             THEN "Showing cached recommendations (offline mode)"
                                             ELSE "No cached recommendations available offline"]]
               [] lower = Str_preferences ->
                    LET p == getCache(c.store, KEY_USER_PREFERENCES, t)
                    IN [threw |-> FALSE, store |-> p.store,
                        ret |-> [canFallback |-> c.ret.canUsePreferences,
                                 fallbackData |-> p.ret,
                                 message |-> IF c.ret.canUsePreferences
                                             THEN "Using cached preferences (offline mode)"
                                             ELSE "No cached preferences available offline"]]
               [] lower = Str_translation ->
                    [threw |-> FALSE, store |-> c.store,
                     ret |-> [canFallback |-> c.ret.canTranslate,
                              fallbackData |-> Null,
                              message |-> IF c.ret.canTranslate
                                          THEN "Limited translation available from cache (offline mode)"
                                          ELSE "Translation not available offline"]]
               [] OTHER ->
                    LET m == getOfflineErrorMessage(c.store, t, feature)
                    IN [threw |-> FALSE, store |-> m.store,
                        ret |-> [canFallback |-> FALSE, fallbackData |-> Undefined,
                                 message |-> m.ret]]
     ELSE IF error = Null \/ error = Undefined
          THEN [threw |-> TRUE, store |-> st, ret |-> "TypeError"]
          ELSE [threw |-> FALSE, store |-> st,
                ret |-> [canFallback |-> FALSE, fallbackData |-> Undefined,
                         message |-> IF error.v.message # << >>
                                     THEN error.v.message
                                     ELSE <<feature, "failed">>]]

----------------------------------------------------------------------------
(* The cache service as a state machine *)

\* `last` is the last call made: its name, and for the calls the properties
\* speak of, their arguments and what they returned
Other == [op |-> "other"]

\* localStorage outlives the page: when a session starts it may hold what
\* earlier sessions wrote.  PriorItem(key, age) is the envelope a cache* call
\* made `age` hours before the session started has left.
SessionStart == EXPIRATION_USER_PREFERENCES + 2

PriorData(key) ==
  CASE key = KEY_RECOMMENDATIONS -> <<Kachori, SilkHouse>>
    [] key = KEY_ESSENTIAL_DATA -> "essentialData"
    [] key = KEY_TRANSLATIONS -> [k \in TranslationKeys |-> "namaste"]
    [] key = KEY_USER_PREFERENCES -> "prefsHindi"

PriorItem(key, age) ==
  CacheItem(PriorData(key), SessionStart - age, SessionStart - age + CACHE_EXPIRATION(key))

Present(st) == {k \in Keys : st[k].kind # "absent"}

\* what an earlier session has left under key: an item one hour short of
\* expiring, or the last-sync stamp of an hour ago
LeftOver(key) ==
  IF key = KEY_LAST_SYNC THEN Raw(SessionStart - 1)
  ELSE PriorItem(key, CACHE_EXPIRATION(key) - 1)

PreloadIdle == [pc |-> "idle"]

\* new CacheManager(): no timer, nothing registered
ManagerInit ==
  /\ cleanupInterval = 0
  /\ timers = {}
  /\ timerSeq = 0
  /\ errorListeners = 0
  /\ sweeps = [first |-> 0, second |-> 0]

Init ==
  /\ \E ks \in SUBSET Keys :
       /\ Cardinality(ks) <= MaxEntries
       /\ store = [k \in Keys |-> IF k \in ks THEN LeftOver(k) ELSE Absent]
  /\ now = SessionStart
  /\ online = TRUE
  /\ last = Other
  /\ preload = PreloadIdle
  /\ ManagerInit

mgrVars == <<cleanupInterval, timers, timerSeq, errorListeners, sweeps>>

\* a write that adds an item needs room among the MaxEntries
HasRoom(key) == store[key].kind # "absent" \/ Cardinality(Present(store)) < MaxEntries

\* cacheRecommendations / cacheEssentialData / cacheUserPreferences
CachePut(key, v, quotaExceeded) ==
  /\ store' = setCache(store, key, v, CACHE_EXPIRATION(key), now, quotaExceeded)
  /\ last' = IF quotaExceeded
             THEN [op |-> "put", key |-> key, stored |-> FALSE,
                   threw |-> handleStorageQuotaExceededThrows(store, now)]
             ELSE [op |-> "put", key |-> key, stored |-> TRUE, arg |-> v]
  /\ UNCHANGED <<now, online, preload, mgrVars>>

\* getCachedRecommendations / getCachedEssentialData / getCachedTranslations /
\* getCachedUserPreferences
CacheGet(key) ==
  LET g == getCache(store, key, now)
  IN /\ store' = g.store
     /\ last' = [op |-> "get", key |-> key, found |-> store[key].kind, ret |-> g.ret]
     /\ UNCHANGED <<now, online, preload, mgrVars>>

CacheTranslation(tkey, text, quotaExceeded) ==
  /\ store' = cacheTranslation(store, tkey, text, now, quotaExceeded)
  /\ last' = IF quotaExceeded
             THEN [op |-> "putTranslation", key |-> tkey, stored |-> FALSE,
                   threw |-> handleStorageQuotaExceededThrows(
                               getCache(store, KEY_TRANSLATIONS, now).store, now)]
             ELSE [op |-> "putTranslation", key |-> tkey, stored |-> TRUE, arg |-> text]
  /\ UNCHANGED <<now, online, preload, mgrVars>>

GetCachedTranslation(tkey) ==
  LET g == getCachedTranslation(store, tkey, now)
  IN /\ store' = g.store
     /\ last' = [op |-> "getTranslation", key |-> tkey, ret |-> g.ret]
     /\ UNCHANGED <<now, online, preload, mgrVars>>

\* updateLastSync: the setItem is not guarded, a QuotaExceededError propagates
UpdateLastSync(quotaExceeded) ==
  /\ store' = updateLastSync(store, now, quotaExceeded).store
  /\ last' = Other
  /\ UNCHANGED <<now, online, preload, mgrVars>>

ClearCache(key) ==
  /\ store[key].kind # "absent"
  /\ store' = [store EXCEPT ![key] = Absent]
  /\ last' = Other
  /\ UNCHANGED <<now, online, preload, mgrVars>>

ClearAllCaches ==
  /\ Present(store) # {}
  /\ store' = [k \in Keys |-> Absent]
  /\ last' = Other
  /\ UNCHANGED <<now, online, preload, mgrVars>>

\* preferencesService.getPreferences / savePreferences: the bare preferences
\* object goes under the same 'userPreferences' key
StoreBarePreferences(prefs) ==
  /\ store' = [store EXCEPT ![KEY_USER_PREFERENCES] = Raw(prefs)]
  /\ last' = Other
  /\ UNCHANGED <<now, online, preload, mgrVars>>

\* a stored text is damaged from outside the services (another tab, the user)
CorruptEntry(key) ==
  /\ store[key].kind \notin {"absent", "corrupt"}
  /\ store' = [store EXCEPT ![key] = Corrupt]
  /\ last' = Other
  /\ UNCHANGED <<now, online, preload, mgrVars>>

\* an hour passes
Tick ==
  /\ now < SessionStart + MaxElapsed
  /\ now' = now + 1
  /\ last' = Other
  /\ UNCHANGED <<store, online, preload, mgrVars>>

\* cacheManager.performCleanup(opts), run to completion.  The call does not
\* measure usage between its expire and its age phase; broughtUnder is
\* whether usage, over the limits at the first getCacheInfo, was within them
\* once the expire phase had removed something.  sizePhaseInfo is the
\* second getCacheInfo when it started the size phase (and zero usage when
\* it did not); the key order matters only to a size phase that runs.
PerformCleanup(opts, est1, est2) ==
  /\ \E aged \in {AfterAgePhase(store, now, opts, est1)} :
       /\ \E keyOrder \in IF OverLimit(getCacheInfo(est2), opts.maxSize)
                          THEN KeyOrders(Eligible(aged, opts.preserveEssential))
                          ELSE {<< >>} :
            store' = SizePhase(aged, opts, est2, keyOrder)
       /\ \E s1 \in {cleanExpiredItems(store, now, opts.preserveEssential)} :
          \E broughtUnder \in
               IF OverLimit(getCacheInfo(est1), opts.maxSize) /\ Present(s1) # Present(store)
               THEN BOOLEAN ELSE {FALSE} :
            last' = [op |-> "performCleanup", opts |-> opts,
                     overLimit |-> \/ OverLimit(getCacheInfo(est1), opts.maxSize)
                                   \/ OverLimit(getCacheInfo(est2), opts.maxSize),
                     removed |-> Cardinality(Present(store) \ Present(store')),
                     broughtUnder |-> broughtUnder,
                     agedOut |-> Cardinality(Present(s1) \ Present(aged)),
                     sizePhaseInfo |-> IF OverLimit(getCacheInfo(est2), opts.maxSize)
                                       THEN getCacheInfo(est2)
                                       ELSE getCacheInfo(NoEstimate)]
  /\ UNCHANGED <<now, online, preload, mgrVars>>

Next ==
  \/ \E key \in {KEY_RECOMMENDATIONS, KEY_ESSENTIAL_DATA, KEY_USER_PREFERENCES} :
       \E v \in PutValues(key), q \in BOOLEAN : HasRoom(key) /\ CachePut(key, v, q)
  \/ \E key \in Keys \ {KEY_LAST_SYNC} : CacheGet(key)
  \/ \E tkey \in TranslationKeys, text \in TranslationTexts, q \in BOOLEAN :
       HasRoom(KEY_TRANSLATIONS) /\ CacheTranslation(tkey, text, q)
  \/ \E tkey \in TranslationKeys : GetCachedTranslation(tkey)
  \/ \E q \in BOOLEAN : HasRoom(KEY_LAST_SYNC) /\ UpdateLastSync(q)
  \/ \E key \in Keys : ClearCache(key)
  \/ ClearAllCaches
  \/ \E prefs \in PreferenceObjects : HasRoom(KEY_USER_PREFERENCES) /\ StoreBarePreferences(prefs)
  \/ \E key \in Keys : CorruptEntry(key)
  \/ Tick
  \/ \E est \in WithinAndOver : PerformCleanup(DefaultOptions, est, est)

Spec == Init /\ [][Next]_vars

----------------------------------------------------------------------------
(* A run of DataPreloader.preloadEssentialData *)

\* a task of the run: its promise's status, how its request went ("none"
\* while it has not been made), whether prefetchQuery rejected, and whether
\* a cached value stood in when the request failed
Task(status) == [status |-> status, fetch |-> "none", rejected |-> FALSE, fallback |-> FALSE]

\* what an earlier session may have left when the preload starts
PreloadTexts(key) ==
  CASE key = KEY_USER_PREFERENCES -> {Absent, Raw("prefsHindi"), PriorItem(key, 1)}
    [] key = KEY_RECOMMENDATIONS ->
         {Absent, PriorItem(key, 1), CacheItem(<< >>, SessionStart - 1, SessionStart + 23)}
    [] key = KEY_ESSENTIAL_DATA -> {Absent, PriorItem(key, 1)}
    [] key = KEY_LAST_SYNC ->
         {Absent, Raw(SessionStart), Raw(SessionStart - 1), Raw(SessionStart - 2)}

InitPreload ==
  /\ \E p \in PreloadTexts(KEY_USER_PREFERENCES), r \in PreloadTexts(KEY_RECOMMENDATIONS),
        e \in PreloadTexts(KEY_ESSENTIAL_DATA), ls \in PreloadTexts(KEY_LAST_SYNC) :
       store = [k \in Keys |->
                  CASE k = KEY_USER_PREFERENCES -> p
                    [] k = KEY_RECOMMENDATIONS -> r
                    [] k = KEY_ESSENTIAL_DATA -> e
                    [] k = KEY_LAST_SYNC -> ls
                    [] OTHER -> Absent]
  /\ now = SessionStart
  /\ online \in BOOLEAN
  /\ last = Other
  /\ preload = PreloadIdle
  /\ ManagerInit

\* preloadEssentialData({queryClient, forceRefresh}) is called: it returns at
\* once when nothing needs a refresh and the browser is offline, and
\* otherwise starts its four tasks, each of which runs up to its first await
PreloadStart(forceRefresh, q1, q2) ==
  /\ preload.pc = "idle"
  /\ IF ~(forceRefresh \/ needsRefresh(store, now, 60)) /\ ~online
     THEN /\ preload' = [pc |-> "done", launched |-> FALSE,
                         result |-> [success |-> TRUE, errors |-> << >>,
                                     preloadedItems |-> << >>]]
          /\ store' = store
     ELSE \E t1 \in {preloadUserPreferencesStart(store, now)} :
          \E t2 \in {preloadPopularRecommendationsStart(t1.store, now)} :
            /\ store' = cacheService_preloadEssentialData(t2.store, now, q1, q2)
            /\ preload' = [pc |-> "running",
                           tasks |-> <<Task(t1.status), Task(t2.status),
                                       Task("fetching"), Task("fulfilled")>>,
                           queryData |->
                             <<IF t1.status = "fulfilled"
                               THEN [shape |-> "value",
                                     value |-> getCache(store, KEY_USER_PREFERENCES, now).ret.v]
                               ELSE [shape |-> "none"],
                               IF t2.status = "fulfilled"
                               THEN [shape |-> "value",
                                     value |-> getCache(store, KEY_RECOMMENDATIONS, now).ret.v]
                               ELSE [shape |-> "none"]>>]
  /\ UNCHANGED <<now, online, last, mgrVars>>

Fetching(i) == preload.pc = "running" /\ preload.tasks[i].status = "fetching"

\* the prefetch of the user preferences settles; the fetch counts as failed
\* when the request fails or getPreferences cannot store what it received
PreferencesFetchSettles(netOk, q0, q, rejects) ==
  /\ Fetching(1)
  /\ netOk => online
  /\ \E r \in {preloadUserPreferencesSettle(store, now, netOk, q0, q, rejects)} :
       /\ store' = r.store
       /\ preload' = [preload EXCEPT
            !.queryData[1] = queryDataOfPreferences(store, now, netOk, q0, rejects),
            !.tasks[1] =
            [status |-> r.status,
             fetch |-> IF netOk /\ ~q0 THEN "ok" ELSE "failed",
             rejected |-> getPreferences(store, netOk, q0).threw /\ rejects,
             fallback |-> /\ ~(netOk /\ ~q0)
                          /\ store[KEY_USER_PREFERENCES].kind \in {"raw", "env"}]]
  /\ UNCHANGED <<now, online, last, mgrVars>>

\* the prefetch of the popular recommendations settles
RecommendationsFetchSettles(netOk, q, rejects) ==
  /\ Fetching(2)
  /\ netOk => online
  /\ \E r \in {preloadPopularRecommendationsSettle(store, now, netOk, q, rejects)} :
       /\ store' = r.store
       /\ preload' = [preload EXCEPT
            !.queryData[2] = queryDataOfRecommendations(store, now, netOk, rejects),
            !.tasks[2] =
            [status |-> r.status,
             fetch |-> IF netOk THEN "ok" ELSE "failed",
             rejected |-> ~netOk /\ rejects,
             fallback |-> /\ ~netOk
                          /\ store[KEY_RECOMMENDATIONS].kind = "env"
                          /\ now <= store[KEY_RECOMMENDATIONS].expiration
                          /\ store[KEY_RECOMMENDATIONS].data # << >>]]
  /\ UNCHANGED <<now, online, last, mgrVars>>

\* the prefetches of the four categories settle; netOk is whether all of
\* them succeeded
CategoriesFetchSettle(netOk, rejects) ==
  /\ Fetching(3)
  /\ netOk => online
  /\ preload' = [preload EXCEPT !.tasks[3] =
       [status |-> preloadRecommendationCategories(netOk, rejects),
        fetch |-> IF netOk THEN "ok" ELSE "failed",
        rejected |-> ~netOk /\ rejects,
        fallback |-> FALSE]]
  /\ UNCHANGED <<store, now, online, last, mgrVars>>

\* Promise.allSettled resolves: the results are processed, the last-sync
\* stamp is written (q is whether that setItem throws) and the result returned
PreloadJoin(q) ==
  /\ preload.pc = "running"
  /\ \A i \in Tasks : preload.tasks[i].status # "fetching"
  /\ \E u \in {updateLastSync(store, now, q)} :
       /\ store' = u.store
       /\ preload' = [pc |-> "done", launched |-> TRUE, tasks |-> preload.tasks,
                      queryData |-> preload.queryData,
                      lastSyncThrew |-> u.threw,
                      result |-> preloadResult([i \in Tasks |-> preload.tasks[i].status],
                                               u.threw)]
  /\ UNCHANGED <<now, online, last, mgrVars>>

NextPreload ==
  \/ \E forceRefresh, q1, q2 \in BOOLEAN : PreloadStart(forceRefresh, q1, q2)
  \/ \E netOk, q0, q, rejects \in BOOLEAN : PreferencesFetchSettles(netOk, q0, q, rejects)
  \/ \E netOk, q, rejects \in BOOLEAN : RecommendationsFetchSettles(netOk, q, rejects)
  \/ \E netOk, rejects \in BOOLEAN : CategoriesFetchSettle(netOk, rejects)
  \/ \E q \in BOOLEAN : PreloadJoin(q)

SpecPreload == InitPreload /\ [][NextPreload]_vars

(* The preload next to the useRecommendations hook *)

\* recommendationService.getRecommendations({category}) for a category other
\* than 'all': the places of that category, none for 'markets'
getRecommendations(category) ==
  SelectSeq(<<Kachori, SilkHouse, ChaiStall>>, LAMBDA item : item.category = category)

\* the queryFn of useRecommendations({category}) runs and its request
\* succeeds: what came back is written to the one recommendations key of the
\* durable cache and returned into the hook's own Query Cache entry
UseRecommendationsFetch(category, quotaExceeded) ==
  /\ online
  /\ store' = setCache(store, KEY_RECOMMENDATIONS, getRecommendations(category),
                       EXPIRATION_RECOMMENDATIONS, now, quotaExceeded)
  /\ UNCHANGED <<now, online, last, preload, mgrVars>>

NextProvenance ==
  \/ \E category \in {"shops", "markets"}, q \in BOOLEAN : UseRecommendationsFetch(category, q)
  \/ NextPreload

SpecProvenance == InitPreload /\ [][NextProvenance]_vars

----------------------------------------------------------------------------
(* Calls on the offline fallback service *)

\* what the cache may hold when the fallbacks are asked: nothing, a damaged
\* text, an expired item, a live item (one recommendation without tags)
OfflineTexts(key) ==
  CASE key = KEY_RECOMMENDATIONS ->
         {Absent, Corrupt,
          CacheItem(<<Kachori, SilkHouse, ChaiStall>>, SessionStart - 25, SessionStart - 1),
          CacheItem(<<Kachori, SilkHouse, ChaiStall>>, SessionStart - 1, SessionStart + 23)}
    [] key = KEY_TRANSLATIONS -> {Absent, Corrupt, PriorItem(key, 1)}
    [] key = KEY_USER_PREFERENCES -> {Absent, Raw("prefsHindi"), PriorItem(key, 1)}
    [] key = KEY_ESSENTIAL_DATA -> {Absent, PriorItem(key, 1)}
    [] key = KEY_LAST_SYNC -> {Absent, Raw(SessionStart - 1)}

\* the essential dataset and the last-sync marker are written by the same
\* preload run, so they are there together or not at all
InitOffline ==
  /\ \E r \in OfflineTexts(KEY_RECOMMENDATIONS), tr \in OfflineTexts(KEY_TRANSLATIONS),
        e \in OfflineTexts(KEY_ESSENTIAL_DATA), p \in OfflineTexts(KEY_USER_PREFERENCES),
        ls \in OfflineTexts(KEY_LAST_SYNC) :
       /\ (e = Absent) <=> (ls = Absent)
       /\ store = [k \in Keys |->
                  CASE k = KEY_RECOMMENDATIONS -> r
                    [] k = KEY_TRANSLATIONS -> tr
                    [] k = KEY_ESSENTIAL_DATA -> e
                    [] k = KEY_USER_PREFERENCES -> p
                    [] k = KEY_LAST_SYNC -> ls]
  /\ now = SessionStart
  /\ online \in BOOLEAN
  /\ last = Other
  /\ preload = PreloadIdle
  /\ ManagerInit

\* the arguments the callers pass
CategoryArgs == {Undefined, Val("all"), Val("street_food"), Val("shops")}
QueryArgs == {Undefined, Val(<< >>), Val(Str_KACH), Val(Str_tea)}
LimitArgs == {Undefined, Val(0), Val(1)}
\* error.message is the sequence of the parts of the text, in the way of
\* `${feature} failed`; an Error made without a message has the empty one
ErrorArgs == {Null, Undefined, Val([message |-> <<"Network Error">>]), Val([message |-> << >>])}

IsAvailableOffline(feature) ==
  /\ \E r \in {isAvailableOffline(store, now, feature)} :
       /\ store' = r.store
       /\ last' = [op |-> "isAvailableOffline", feature |-> feature,
                   threw |-> r.threw, ret |-> r.ret]
  /\ UNCHANGED <<now, online, preload, mgrVars>>

GetOfflineRecommendations(params) ==
  /\ \E r \in {getOfflineRecommendations(store, now, params)} :
       /\ store' = r.store
       /\ last' = [op |-> "getOfflineRecommendations", params |-> params,
                   threw |-> r.threw, ret |-> r.ret]
  /\ UNCHANGED <<now, online, preload, mgrVars>>

GetOfflineTranslation(text, targetLanguage, sourceLanguage) ==
  /\ \E r \in {getOfflineTranslation(store, now, text, targetLanguage, sourceLanguage)} :
       /\ store' = r.store
       /\ last' = [op |-> "getOfflineTranslation", text |-> text,
                   threw |-> r.threw, ret |-> r.ret]
  /\ UNCHANGED <<now, online, preload, mgrVars>>

GetOfflineCapabilities ==
  /\ \E r \in {getOfflineCapabilities(store, now)} :
       /\ store' = r.store
       /\ last' = [op |-> "getOfflineCapabilities", threw |-> r.threw, ret |-> r.ret]
  /\ UNCHANGED <<now, online, preload, mgrVars>>

HandleOfflineError(error, feature) ==
  /\ \E r \in {handleOfflineError(store, now, online, error, feature)} :
       /\ store' = r.store
       /\ last' = [op |-> "handleOfflineError", error |-> error, feature |-> feature,
                   threw |-> r.threw, ret |-> r.ret]
  /\ UNCHANGED <<now, online, preload, mgrVars>>

NextOffline ==
  \/ \E feature \in {"recommendations", "preferences", "translations", "essential", "speech"} :
       IsAvailableOffline(feature)
  \/ \E category \in CategoryArgs, query \in QueryArgs, limit \in LimitArgs :
       GetOfflineRecommendations([category |-> category, query |-> query, limit |-> limit])
  \/ \E text \in {Str_Hello, Str_bye}, sourceLanguage \in {Undefined, Val("en")} :
       GetOfflineTranslation(text, "hi", sourceLanguage)
  \/ GetOfflineCapabilities
  \/ \E error \in ErrorArgs,
        feature \in {Str_Recommendations, Str_preferences, Str_translation, Str_maps} :
       HandleOfflineError(error, feature)

SpecOffline == InitOffline /\ [][NextOffline]_vars

----------------------------------------------------------------------------
(* The cache manager's lifecycle *)

\* cacheManager.initialize(queryClient): the periodic cleanup is started, the
\* listeners are registered, and the initial cleanup runs; held is the
\* timer handle the manager had when it was called
Initialize(est1, est2) ==
  /\ timerSeq < MaxTimers
  /\ \E m \in {startPeriodicCleanup([cleanupInterval |-> cleanupInterval, timers |-> timers],
                                    timerSeq + 1)} :
       /\ cleanupInterval' = m.cleanupInterval
       /\ timers' = m.timers
  /\ timerSeq' = timerSeq + 1
  /\ errorListeners' = errorListeners + 1
  /\ \E aged \in {AfterAgePhase(store, now, DefaultOptions, est1)} :
       \E keyOrder \in IF OverLimit(getCacheInfo(est2), DefaultOptions.maxSize)
                        THEN KeyOrders(Eligible(aged, TRUE))
                        ELSE {<< >>} :
          store' = SizePhase(aged, DefaultOptions, est2, keyOrder)
  /\ last' = [op |-> "initialize", held |-> cleanupInterval]
  /\ UNCHANGED <<now, online, preload, sweeps>>

\* an interval fires although it has been cleared
TimerFire_afterClear(id) ==
  /\ id \in 1..timerSeq
  /\ sweeps.first + sweeps.second < MaxSweeps
  /\ sweeps' = [sweeps EXCEPT !.first = @ + 1]
  /\ last' = [op |-> "timerFire", handle |-> cleanupInterval]
  /\ UNCHANGED <<store, now, online, preload, cleanupInterval, timers, timerSeq,
                 errorListeners>>

\* an interval timer fires: the callback calls performCleanup(
\* {preserveEssential: true}), which runs up to its first await, of
\* getCacheInfo
TimerFire(id) ==
  /\ id \in timers
  /\ sweeps.first + sweeps.second < MaxSweeps
  /\ sweeps' = [sweeps EXCEPT !.first = @ + 1]
  /\ last' = [op |-> "timerFire", handle |-> cleanupInterval]
  /\ UNCHANGED <<store, now, online, preload, cleanupInterval, timers, timerSeq,
                 errorListeners>>

\* the first getCacheInfo of a periodic cleanup in flight answers est1: the
\* expire phase runs, the age phase if est1 is over the limits, and the
\* cleanup awaits its second getCacheInfo
SweepExpireAge(est1) ==
  /\ sweeps.first > 0
  /\ store' = AfterAgePhase(store, now, DefaultOptions, est1)
  /\ sweeps' = [first |-> sweeps.first - 1, second |-> sweeps.second + 1]
  /\ last' = [op |-> "sweepExpireAge", threw |-> FALSE]
  /\ UNCHANGED <<now, online, preload, cleanupInterval, timers, timerSeq, errorListeners>>

\* the second getCacheInfo answers est2: the size phase runs if est2 is over
\* the limits, and the cleanup returns to the timer's callback
SweepSize(est2) ==
  /\ sweeps.second > 0
  /\ \E keyOrder \in IF OverLimit(getCacheInfo(est2), DefaultOptions.maxSize)
                      THEN KeyOrders(Eligible(store, TRUE))
                      ELSE {<< >>} :
       store' = SizePhase(store, DefaultOptions, est2, keyOrder)
  /\ sweeps' = [sweeps EXCEPT !.second = @ - 1]
  /\ last' = [op |-> "sweepCompleted", threw |-> FALSE, handle |-> cleanupInterval]
  /\ UNCHANGED <<now, online, preload, cleanupInterval, timers, timerSeq, errorListeners>>

\* the window reports an error named QuotaExceededError: every 'error'
\* listener registered so far runs performEmergencyCleanup
QuotaErrorEvent ==
  /\ errorListeners > 0
  /\ store' = performEmergencyCleanup(store)
  /\ last' = [op |-> "quotaErrorEvent",
              removed |-> Cardinality(Present(store) \ Present(store'))]
  /\ UNCHANGED <<now, online, preload, mgrVars>>

\* cacheManager.destroy(); again is whether the call before it was a destroy
Destroy ==
  /\ \E m \in {destroy([cleanupInterval |-> cleanupInterval, timers |-> timers])} :
       /\ cleanupInterval' = m.cleanupInterval
       /\ timers' = m.timers
       /\ last' = [op |-> "destroy", threw |-> m.threw, again |-> last.op = "destroy"]
  /\ UNCHANGED <<store, now, online, preload, timerSeq, errorListeners, sweeps>>

NextManager ==
  \/ \E est \in WithinAndOver : Initialize(est, est)
  \/ \E id \in 1..MaxTimers : TimerFire(id)
  \/ \E est1 \in WithinAndOver : SweepExpireAge(est1)
  \/ \E est2 \in WithinAndOver : SweepSize(est2)
  \/ QuotaErrorEvent
  \/ Destroy
  \/ PerformCleanup(DefaultOptions, NoEstimate, NoEstimate)
  \/ Tick
  \/ \E key \in {KEY_TRANSLATIONS, KEY_ESSENTIAL_DATA} : CorruptEntry(key)
  \/ CachePut(KEY_ESSENTIAL_DATA, "essentialData", TRUE)

SpecManager == Init /\ [][NextManager]_vars

----------------------------------------------------------------------------
(* Properties of the cache service, checked under Spec *)

\* C1 (lazy expiry): a domain getter called on a key that holds an envelope
\* returns absent exactly when now > expiration at the time of the call, and
\* otherwise returns the envelope's data, whatever puts, sweeps and quota
\* recoveries came before; the recommendations put 23 h before the session
\* started are returned at its start and are absent, and removed, 2 h later.
C1_LazyExpiry ==
  [][\A k \in Keys :
       (last'.op = "get" /\ last'.key = k /\ store[k].kind = "env")
         => /\ (last'.ret = Null) <=> (now > store[k].expiration)
            /\ (last'.ret # Null) => (last'.ret = Val(store[k].data))
            /\ (k = KEY_RECOMMENDATIONS /\ store[k] = PriorItem(k, 23))
                 => /\ (now = SessionStart) => last'.ret = Val(PriorData(k))
                    /\ (now = SessionStart + 2)
                         => (last'.ret = Null /\ store'[k] = Absent)]_vars

\* a get of the recommendations found the envelope 25 h after it was written
\* and returned absent
C1_Witness ==
  /\ last.op = "get" /\ last.key = KEY_RECOMMENDATIONS
  /\ last.found = "env" /\ last.ret = Null
  /\ now = SessionStart + 2

\* C2 (round trip), as claimed: a put whose write went through, directly
\* followed by a get of the same key with no time elapsed, returns the value
\* put; likewise cacheTranslation(k, s) directly followed by
\* getCachedTranslation(k) returns s, for every string s.
C2_RoundTrip ==
  [][/\ (/\ last.op = "put" /\ last.stored
         /\ last'.op = "get" /\ last'.key = last.key /\ now' = now)
        => last'.ret = Val(last.arg)
     /\ (/\ last.op = "putTranslation" /\ last.stored
         /\ last'.op = "getTranslation" /\ last'.key = last.key /\ now' = now)
        => last'.ret = Val(last.arg)]_vars

\* C15 (self-healing reads), as claimed: a get that finds the stored entry
\* expired or unparsable returns absent and leaves the key out of storage;
\* a get that returns a value leaves storage unchanged.
C15_SelfHealingReads ==
  [][(last'.op = "get")
       => LET k == last'.key
          IN /\ (ParseThrows(store[k]) \/ IsExpired(store[k], now))
                  => (last'.ret = Null /\ store'[k] = Absent)
             /\ (last'.ret # Null) => (store' = store)]_vars

\* C18 (envelope validation on read), as claimed: a get that finds a text
\* that parses but is no cache item, such as the bare preferences object
\* preferencesService stores under 'userPreferences', returns absent (null)
\* and not undefined.
C18_EnvelopeValidation ==
  [][(last'.op = "get" /\ store[last'.key].kind = "raw")
       => (last'.ret = Null /\ last'.ret # Undefined)]_vars

\* C24 (bulk-write ownership), as claimed: a put of the cache service
\* removes no entry other than the one it writes, and a cleanup of the cache
\* manager creates no entry.
C24_BulkWriteOwnership ==
  [][/\ (last'.op = "put")
          => Present(store) \ {last'.key} \subseteq Present(store')
     /\ (last'.op = "putTranslation")
          => Present(store) \ {KEY_TRANSLATIONS} \subseteq Present(store')
     /\ (last'.op = "performCleanup")
          => Present(store') \subseteq Present(store)]_vars

\* the part of C24 that holds: a put that is stored removes no other entry,
\* and a cleanup creates none
C24_StoredPutsAndCleanups ==
  [][/\ (last'.op = "put" /\ last'.stored)
          => Present(store) \ {last'.key} \subseteq Present(store')
     /\ (last'.op = "putTranslation" /\ last'.stored)
          => Present(store) \ {KEY_TRANSLATIONS} \subseteq Present(store')
     /\ (last'.op = "performCleanup")
          => Present(store') \subseteq Present(store)]_vars

\* C26 (key-prefix partitioning), as claimed: the key a put stores its
\* entry under carries the prefix the cache manager selects on, whatever
\* the domain, so that getCacheStats counts every stored entry.
C26_KeyPrefix ==
  [][(last'.op = "put" /\ last'.stored)
       => /\ StartsWithLocalGuide(last'.key)
          /\ getCacheStats(store', now).totalItems = Cardinality(Present(store'))]_vars

\* the part of C26 that holds: every domain but the user preferences is
\* stored under the prefix, and getCacheStats counts every entry but theirs
C26_KeyPrefixButPreferences ==
  [][(last'.op = "put" /\ last'.stored)
       => /\ last'.key # KEY_USER_PREFERENCES => StartsWithLocalGuide(last'.key)
          /\ getCacheStats(store', now).totalItems =
               Cardinality(Present(store') \ {KEY_USER_PREFERENCES})]_vars

\* C11 (quota failure is swallowed): a cache* call whose storage write fails
\* with QuotaExceededError returns to its caller without an exception, the
\* recovery it runs included, and stores nothing: every key holds what it
\* held before the call or has been removed.
C11_QuotaWriteDropped ==
  [][(last'.op \in {"put", "putTranslation"} /\ ~last'.stored)
       => /\ ~last'.threw
          /\ \A k \in Keys : store'[k] \in {store[k], Absent}]_vars

\* a cacheRecommendations call failed on the quota and returned: no
\* recommendations are stored, the recovery has left no essential dataset
\* and has kept the user preferences
C11_Witness ==
  /\ last.op = "put" /\ ~last.stored /\ ~last.threw
  /\ last.key = KEY_RECOMMENDATIONS
  /\ store[KEY_RECOMMENDATIONS] = Absent
  /\ store[KEY_ESSENTIAL_DATA] = Absent
  /\ store[KEY_USER_PREFERENCES].kind = "env"

----------------------------------------------------------------------------
(* The cache manager's sweeps, statistics and health report *)

\* what earlier sessions may have left under a key when a sweep runs: nothing,
\* a damaged text, a live item, an expired item, a live item older than a week
PriorTexts(key) ==
  CASE key = KEY_RECOMMENDATIONS ->
         {Absent, Corrupt, PriorItem(key, 1), PriorItem(key, EXPIRATION_RECOMMENDATIONS + 1)}
    [] key = KEY_TRANSLATIONS ->
         {Absent, PriorItem(key, 1), PriorItem(key, OLD_ITEM_AGE + 1),
          PriorItem(key, EXPIRATION_TRANSLATIONS + 1)}
    [] key = KEY_ESSENTIAL_DATA ->
         {Absent, Corrupt, PriorItem(key, 1), PriorItem(key, EXPIRATION_ESSENTIAL_DATA + 1)}
    [] key = KEY_USER_PREFERENCES ->
         {Absent, Raw("prefsHindi"), PriorItem(key, EXPIRATION_USER_PREFERENCES + 1)}
    [] key = KEY_LAST_SYNC ->
         {Absent, Corrupt, Raw(SessionStart - 1)}

InitCleanup ==
  /\ \E r \in PriorTexts(KEY_RECOMMENDATIONS), tr \in PriorTexts(KEY_TRANSLATIONS),
        e \in PriorTexts(KEY_ESSENTIAL_DATA), p \in PriorTexts(KEY_USER_PREFERENCES),
        ls \in PriorTexts(KEY_LAST_SYNC) :
       store = [k \in Keys |->
                  CASE k = KEY_RECOMMENDATIONS -> r
                    [] k = KEY_TRANSLATIONS -> tr
                    [] k = KEY_ESSENTIAL_DATA -> e
                    [] k = KEY_USER_PREFERENCES -> p
                    [] k = KEY_LAST_SYNC -> ls]
  /\ now = SessionStart
  /\ online = TRUE
  /\ last = Other
  /\ preload = PreloadIdle
  /\ ManagerInit

\* cacheManager.getCacheStats()
GetCacheStats ==
  /\ last' = [op |-> "getCacheStats", ret |-> getCacheStats(store, now)]
  /\ UNCHANGED <<store, now, online, preload, mgrVars>>

\* cacheManager.checkStorageHealth(); est is what navigator.storage.estimate()
\* reports to its getCacheInfo
CheckStorageHealth(est) ==
  /\ last' = [op |-> "checkStorageHealth", est |-> est,
              ret |-> checkStorageHealth(store, now, est)]
  /\ UNCHANGED <<store, now, online, preload, mgrVars>>

NextCleanup ==
  \/ \E opts \in CleanupOptions, est1, est2 \in WithinAndOver :
       PerformCleanup(opts, est1, est2)
  \/ GetCacheStats
  \/ \E est \in StorageEstimates : CheckStorageHealth(est)

SpecCleanup == InitCleanup /\ [][NextCleanup]_vars

----------------------------------------------------------------------------
(* Properties of the sweeps and of the health report, checked under        *)
(* SpecCleanup                                                             *)

\* the entries the sweep is to preserve: current user preferences, the
\* essential dataset, the last-sync marker
EssentialEntries == {KEY_USER_PREFERENCES, KEY_ESSENTIAL_DATA, KEY_LAST_SYNC}

\* an entry that is corrupted or past its expiration
Dead(st, k, t) == ParseThrows(st[k]) \/ IsExpired(st[k], t)

\* the entries under the application's prefix
CacheEntries(st) == {k \in Present(st) : StartsWithLocalGuide(k)}

\* C19 (corrupted data is always removed), as claimed: after a performCleanup,
\* with preserveEssential true or false, no entry whose text fails to parse
\* is left, the essential dataset and the last-sync marker included.
C19_CorruptedRemoved ==
  [][(last'.op = "performCleanup") => \A k \in Keys : ~ParseThrows(store'[k])]_vars

\* C20 (phase gating), as claimed: the age phase runs only if usage after
\* the expire phase is still over the limits, so that it removes nothing
\* when the expire phase alone has brought usage under them; and when usage
\* is within the limits at both measurements only the expire phase acts.
C20_PhaseGating ==
  [][(last'.op = "performCleanup")
       => /\ last'.broughtUnder => last'.agedOut = 0
          /\ ~last'.overLimit
               => store' = cleanExpiredItems(store, now, last'.opts.preserveEssential)]_vars

\* the size phase of the last performCleanup ran
SizePhaseRan == OverLimit(last.sizePhaseInfo, last.opts.maxSize)

\* the keys the size phase of the performCleanup step removed: those the
\* step removed that neither the expire phase nor, if it removed anything,
\* the age phase had removed
SizedOut ==
  LET s1 == cleanExpiredItems(store, now, last'.opts.preserveEssential)
      aged == IF last'.agedOut = 0 THEN s1
              ELSE cleanByAge(s1, now, last'.opts.maxAge, last'.opts.preserveEssential)
  IN Present(aged) \ Present(store')

\* C21 (size phase), as claimed: when the size phase runs it removes
\* eligible entries oldest first (an entry without a timestamp counting as
\* timestamp 0), so that no entry it keeps is older than one it removed, and
\* when it ends either usage is at most maxSize or no eligible entry is
\* left.  Usage is what getCacheInfo reports; a phase that removed nothing
\* has left it as the second getCacheInfo measured it.
C21_SizePhase ==
  [][(last'.op = "performCleanup" /\ SizePhaseRan')
       => /\ \A k \in SizedOut :
               \A j \in Eligible(store', last'.opts.preserveEssential) :
                  ParsedTimestamp(store[k]) <= ParsedTimestamp(store'[j])
          /\ SizedOut = {}
               => \/ last'.sizePhaseInfo.used <= last'.opts.maxSize
                  \/ Eligible(store', last'.opts.preserveEssential) = {}]_vars

\* the part of C21 that holds: the order of removal, and the phase ending
\* with the summed length of the eligible entries at most maxSize or with no
\* eligible entry left
C21_SizePhaseOwnMeasure ==
  [][(last'.op = "performCleanup" /\ SizePhaseRan')
       => /\ \A k \in SizedOut :
               \A j \in Eligible(store', last'.opts.preserveEssential) :
                  ParsedTimestamp(store[k]) <= ParsedTimestamp(store'[j])
          /\ \/ SumLength(store', Eligible(store', last'.opts.preserveEssential))
                   <= last'.opts.maxSize
             \/ Eligible(store', last'.opts.preserveEssential) = {}]_vars

\* C22 (age warning), as claimed: whenever an entry under the application's
\* prefix was written more than 7 days ago, the report of checkStorageHealth
\* carries the old-items warning, whatever else the cache holds.
C22_AgeWarning ==
  (last.op = "checkStorageHealth")
    => ((\E k \in CacheEntries(store) :
           store[k].kind = "env" /\ now - store[k].timestamp > OLD_ITEM_AGE)
          => \E i \in DOMAIN last.ret.warnings : last.ret.warnings[i] = WARN_OLD)

\* the part of C22 that holds: the warning is given when the oldest entry is
\* more than 7 days old and every entry that parses carries a timestamp
C22_AgeWarningAllStamped ==
  (last.op = "checkStorageHealth")
    => ((/\ \E k \in CacheEntries(store) :
              store[k].kind = "env" /\ now - store[k].timestamp > OLD_ITEM_AGE
         /\ \A k \in CacheEntries(store) : store[k].kind \in {"env", "corrupt"})
          => \E i \in DOMAIN last.ret.warnings : last.ret.warnings[i] = WARN_OLD)

\* C3 (essential preservation): a performCleanup call with preserveEssential
\* = true, whatever its maxAge and maxSize and whether or not storage is over
\* the limits, leaves every essential entry that was present and not
\* corrupted before the call in place and unchanged.
C3_EssentialPreserved ==
  [][(last'.op = "performCleanup" /\ last'.opts.preserveEssential)
       => \A k \in EssentialEntries :
            (store[k].kind # "absent" /\ ~ParseThrows(store[k]))
              => store'[k] = store[k]]_vars

\* a sweep with preserveEssential, over its limits, has removed both
\* non-essential entries and left an expired essential dataset, the last-sync
\* marker and the preferences
C3_Witness ==
  /\ last.op = "performCleanup" /\ last.opts.preserveEssential
  /\ last.overLimit /\ last.removed = 2
  /\ IsExpired(store[KEY_ESSENTIAL_DATA], now)
  /\ store[KEY_LAST_SYNC].kind = "raw"
  /\ store[KEY_USER_PREFERENCES].kind # "absent"

\* C7 (sweep postcondition), as claimed: after performCleanup({}) on a store
\* within its limits the remaining cache entries are exactly those that were
\* unexpired and uncorrupted before the call, and getCacheStats counts no
\* expired item.
C7_SweepPostcondition ==
  [][(last'.op = "performCleanup" /\ last'.opts = DefaultOptions /\ ~last'.overLimit)
       => /\ CacheEntries(store') = {k \in CacheEntries(store) : ~Dead(store, k, now)}
          /\ getCacheStats(store', now).expiredItems = 0]_vars

\* C7, amended: after performCleanup({}) on a store within its limits the
\* remaining entries are exactly those that before the call were essential,
\* or outside the application's prefix, or unexpired and uncorrupted; each of
\* them is unchanged, and getCacheStats counts as expired exactly the
\* essential entries under the prefix that were expired or corrupted.
C7_SweepPostconditionAmended ==
  [][(last'.op = "performCleanup" /\ last'.opts = DefaultOptions /\ ~last'.overLimit)
       => /\ \A k \in Keys :
               store'[k] = IF /\ k \in CacheEntries(store)
                              /\ k \notin EssentialEntries
                              /\ Dead(store, k, now)
                           THEN Absent ELSE store[k]
          /\ getCacheStats(store', now).expiredItems =
               Cardinality({k \in CacheEntries(store) \cap EssentialEntries :
                              Dead(store, k, now)})]_vars

\* a default sweep within limits found five entries, removed the two dead
\* ones and left the three live ones, none of which counts as expired
C7_Witness ==
  /\ last.op = "performCleanup" /\ last.opts = DefaultOptions /\ ~last.overLimit
  /\ last.removed = 2
  /\ Cardinality(Present(store)) = 3
  /\ getCacheStats(store, now).expiredItems = 0

\* C8 (health thresholds): checkStorageHealth reports healthy = false exactly
\* when usage / quota > 0.9, and exactly then warns that storage is nearly
\* full; for usage / quota in (0.8, 0.9] it reports healthy = true with the
\* advisory warning; warnings and recommendations have the same length.
C8_HealthThresholds ==
  (last.op = "checkStorageHealth") =>
    LET est == last.est
        over90 == est.supported /\ est.quota > 0 /\ 10 * est.usage > 9 * est.quota
        over80 == est.supported /\ est.quota > 0 /\ 10 * est.usage > 8 * est.quota
        warns == {last.ret.warnings[i] : i \in 1..Len(last.ret.warnings)}
    IN /\ (~last.ret.healthy) <=> over90
       /\ (WARN_CRITICAL \in warns) <=> over90
       /\ (over80 /\ ~over90) => (last.ret.healthy /\ WARN_HIGH \in warns)
       /\ Len(last.ret.warnings) = Len(last.ret.recommendations)

\* a health check at 91 % of the quota reported unhealthy with the critical
\* warning, next to the warning about week-old items
C8_Witness ==
  /\ last.op = "checkStorageHealth"
  /\ last.est = Estimate(91, 100)
  /\ ~last.ret.healthy
  /\ last.ret.warnings = <<WARN_CRITICAL, WARN_OLD>>

----------------------------------------------------------------------------
(* Properties of the preload run, checked under SpecPreload *)

\* a run that started its tasks has returned
Returned == preload.pc = "done" /\ preload.launched

\* the tasks of the run whose promise rejected
FailedTasks == {i \in Tasks : preload.tasks[i].status = "rejected"}

\* C4 (majority-success law), as claimed: when the run has started its
\* n = 4 tasks and f of them failed, the result has success = (f <= n / 2).
C4_MajoritySuccess ==
  Returned => (preload.result.success <=> (2 * Cardinality(FailedTasks) <= Len(TASK_NAMES)))

\* the tasks whose request failed with no cached value to stand in
FailedWithoutFallback ==
  {i \in Tasks : preload.tasks[i].fetch = "failed" /\ ~preload.tasks[i].fallback}

OnlyCategoriesFailed ==
  /\ preload.tasks[3].fetch = "failed"
  /\ \A i \in Tasks \ {3} : preload.tasks[i].fetch # "failed"

RejectedWithoutFallback ==
  {i \in {1, 2} : preload.tasks[i].rejected /\ ~preload.tasks[i].fallback}

CategoryFiltered(list) ==
  /\ list # << >>
  /\ \E category \in {"shops", "markets"} : list = getRecommendations(category)

\* the preloader has put a value under the 'all categories, limit 20' key
PopularInQueryCache ==
  /\ preload.pc = "running" \/ Returned
  /\ preload.queryData[2].shape = "value"

\* C30 (query-cache provenance), as claimed: whatever useRecommendations
\* fetches for other categories run before or during a preload run, the value
\* the preloader puts in the Query Cache under the 'all categories, limit 20'
\* key is never a category-filtered list.
C30_QueryCacheProvenance ==
  PopularInQueryCache => ~CategoryFiltered(preload.queryData[2].value)

\* C30, what holds instead: a category-filtered list under that key was
\* copied from the durable cache, never received by the preloader's own
\* 'all categories' request.
C30_FilteredOnlyFromDurableCache ==
  (PopularInQueryCache /\ CategoryFiltered(preload.queryData[2].value))
    => preload.tasks[2].fetch # "ok"

\* C12 (last-sync join barrier), as claimed: in a run that starts its four
\* tasks the last-sync marker is not written before all four have settled,
\* and once they have settled it is written, however many of them failed.
C12_LastSyncJoinBarrier ==
  [][/\ (store'[KEY_LAST_SYNC] # store[KEY_LAST_SYNC])
          => /\ preload.pc = "running"
             /\ \A i \in Tasks : preload.tasks[i].status \in {"fulfilled", "rejected"}
     /\ (preload.pc = "running" /\ preload'.pc = "done")
          => store'[KEY_LAST_SYNC] = Raw(now)]_vars

\* C17 (per-task stale fallback), as claimed: when the request of the
\* user-preferences or of the popular-recommendations task has failed and
\* the cache held a usable entry for it, the task is fulfilled and the Query
\* Cache entry under its key is the cached value; when the cache held
\* nothing usable, the task is rejected.  Stated for the failures that reach
\* the task's own code: prefetchQuery rejected, or getPreferences answered
\* the failed request from storage.
C17_StaleFallback ==
  (preload.pc = "running" \/ Returned) =>
    \A i \in {1, 2} :
      (/\ preload.tasks[i].fetch = "failed"
       /\ preload.tasks[i].rejected \/ (i = 1 /\ preload.tasks[1].fallback))
        => IF preload.tasks[i].fallback
           THEN /\ preload.tasks[i].status = "fulfilled"
                /\ preload.queryData[i].shape = "value"
                /\ preload.queryData[i].value =
                     PriorData(IF i = 1 THEN KEY_USER_PREFERENCES ELSE KEY_RECOMMENDATIONS)
           ELSE preload.tasks[i].status = "rejected"

----------------------------------------------------------------------------
(* Properties of the offline fallback service, checked under SpecOffline *)

\* two characters that are the same letter, whatever their case
SameLetter(a, b) ==
  a = b \/ \E i \in 1..Len(UpperCase) : {a, b} = {UpperCase[i], LowerCase[i]}

\* str contains q, case-insensitively
ContainsIgnoringCase(str, q) ==
  \E off \in 0..(Len(str) - Len(q)) : \A j \in 1..Len(q) : SameLetter(str[off + j], q[j])

\* the recommendation set a read of the cache yields
CachedSet(st, t) ==
  IF st[KEY_RECOMMENDATIONS].kind = "env" /\ t <= st[KEY_RECOMMENDATIONS].expiration
  THEN st[KEY_RECOMMENDATIONS].data ELSE << >>

\* item passes the category and query tests of params
Wanted(item, params) ==
  /\ \/ params.category = Undefined
     \/ params.category = Val("all")
     \/ item.category = params.category.v
  /\ \/ params.query = Undefined
     \/ params.query = Val(<< >>)
     \/ ContainsIgnoringCase(item.name, params.query.v)
     \/ ContainsIgnoringCase(item.description, params.query.v)
     \/ /\ item.hasTags
        /\ \E i \in 1..Len(item.tags) : ContainsIgnoringCase(item.tags[i], params.query.v)

\* C5 (offline recommendations): getOfflineRecommendations({category, query,
\* limit}) returns the first `limit` (10 when left out) items, in cached
\* order, of the cached set that have the category asked for, when it is not
\* 'all', and contain the query case-insensitively in name, description or
\* a tag, when a query is given: its j-th result is the j-th such item.
C5_OfflineRecommendations ==
  [][(last'.op = "getOfflineRecommendations") =>
       LET params == last'.params
           cached == CachedSet(store, now)
           M == {i \in 1..Len(cached) : Wanted(cached[i], params)}
           limit == IF params.limit = Undefined THEN 10 ELSE params.limit.v
       IN /\ ~last'.threw
          /\ Len(last'.ret) = Min(limit, Cardinality(M))
          /\ \A j \in 1..Len(last'.ret) :
               \E i \in M : /\ Cardinality({x \in M : x < i}) = j - 1
                            /\ last'.ret[j] = cached[i]]_vars

\* asked for one street_food item matching "KACH", the service returned
\* Kachori alone: Silk House is of another category and the chai stall, whose
\* tag matches, falls beyond the limit
C5_Witness ==
  /\ last.op = "getOfflineRecommendations"
  /\ last.params = [category |-> Val("street_food"), query |-> Val(Str_KACH),
                    limit |-> Val(1)]
  /\ last.ret = <<Kachori>>

\* no usable item under key: nothing, a damaged text, or an expired item
NoData(st, k, t) == st[k].kind \in {"absent", "corrupt"} \/ IsExpired(st[k], t)

\* the calls of the offline fallback service
OfflineCalls ==
  {"isAvailableOffline", "getOfflineRecommendations", "getOfflineTranslation",
   "getOfflineCapabilities", "handleOfflineError"}

\* C25 (the offline fallback service is read-only), as claimed: a call of
\* isAvailableOffline, getOfflineRecommendations, getOfflineTranslation,
\* getOfflineCapabilities or handleOfflineError leaves the durable cache
\* holding the entries it held, expired ones included.
C25_OfflineReadOnly ==
  [][(last'.op \in OfflineCalls) => Present(store') = Present(store)]_vars

\* the part of C25 that holds: the calls remove nothing but entries that
\* have expired, and create none
C25_OnlyExpiredRemoved ==
  [][(last'.op \in OfflineCalls)
       => /\ Present(store') \subseteq Present(store)
          /\ \A k \in Present(store) \ Present(store') : IsExpired(store[k], now)]_vars

\* C10 (totality), as claimed: whatever the cache holds and whatever the
\* arguments, a null or undefined error object included, isAvailableOffline,
\* getOfflineRecommendations, getOfflineTranslation, getOfflineCapabilities
\* and handleOfflineError return a value and do not throw, and where there is
\* no data the result is empty or negative.
C10_Totality ==
  [][(last'.op \in {"isAvailableOffline", "getOfflineRecommendations",
                    "getOfflineTranslation", "getOfflineCapabilities",
                    "handleOfflineError"})
       => /\ ~last'.threw
          /\ (last'.op = "getOfflineRecommendations" /\ NoData(store, KEY_RECOMMENDATIONS, now))
               => last'.ret = << >>
          /\ (last'.op = "getOfflineTranslation" /\ NoData(store, KEY_TRANSLATIONS, now))
               => last'.ret = Null
          /\ (/\ last'.op = "isAvailableOffline"
              /\ last'.feature = "recommendations"
              /\ NoData(store, KEY_RECOMMENDATIONS, now))
               => last'.ret = FALSE
          /\ (last'.op = "getOfflineCapabilities" /\ NoData(store, KEY_RECOMMENDATIONS, now))
               => /\ ~last'.ret.canBrowseRecommendations
                  /\ last'.ret.availableCategories = << >>]_vars

\* the entry under key can be read: a live envelope, or a text that parses
\* and carries no expiration
Readable(st, k, t) == st[k].kind = "raw" \/ (st[k].kind = "env" /\ t <= st[k].expiration)

\* what handleOfflineError answers while the browser is offline: for
\* recommendations, preferences and translation, in any case of letters,
\* canFallback is whether cached data is there and the message is the
\* feature's own; for any other feature there is no fallback
OfflineAnswer(st, t, feature, ret) ==
  LET is(name) == Len(feature) = Len(name) /\ \A i \in 1..Len(name) : SameLetter(feature[i], name[i])
  IN CASE is(Str_recommendations) ->
            /\ ret.canFallback <=> (CachedSet(st, t) # << >>)
            /\ ret.message = IF ret.canFallback
                             THEN "Showing cached recommendations (offline mode)"
                             ELSE "No cached recommendations available offline"
       [] is(Str_preferences) ->
            /\ ret.canFallback <=> Readable(st, KEY_USER_PREFERENCES, t)
            /\ ret.message = IF ret.canFallback
                             THEN "Using cached preferences (offline mode)"
                             ELSE "No cached preferences available offline"
       [] is(Str_translation) ->
            /\ ret.canFallback <=> /\ Readable(st, KEY_TRANSLATIONS, t)
                                   /\ st[KEY_TRANSLATIONS].kind = "env"
                                   /\ DOMAIN st[KEY_TRANSLATIONS].data # {}
            /\ ret.message = IF ret.canFallback
                             THEN "Limited translation available from cache (offline mode)"
                             ELSE "Translation not available offline"
       [] OTHER -> ~ret.canFallback

----------------------------------------------------------------------------
(* Properties of the manager's lifecycle, checked under SpecManager *)

\* C14 (emergency cleanup): performEmergencyCleanup removes every
\* non-essential cache entry, live, expired or damaged, and leaves the user
\* preferences and the other essential entries as they were, so that only
\* essential entries are left when it returns.
C14_EmergencyCleanup ==
  [][(last'.op = "quotaErrorEvent")
       => /\ \A k \in Keys :
               store'[k] = IF k \in EssentialEntries THEN store[k] ELSE Absent
          /\ Present(store') \subseteq EssentialEntries]_vars

\* an emergency cleanup at the start of the session, when nothing has
\* expired, removed the live translations and left the user preferences
C14_Witness ==
  /\ last.op = "quotaErrorEvent" /\ last.removed = 1
  /\ now = SessionStart
  /\ store[KEY_TRANSLATIONS] = Absent
  /\ store[KEY_USER_PREFERENCES] = LeftOver(KEY_USER_PREFERENCES)

\* C23 (quota-exceeded signalling), as claimed: once initialize() has
\* registered the listener, a cache write that fails for want of quota makes
\* the listener fire, so that the next thing to happen after the write is a
\* run of performEmergencyCleanup.
C23_QuotaSignalling ==
  [][(last.op = "put" /\ ~last.stored /\ errorListeners > 0)
       => last'.op = "quotaErrorEvent"]_vars

\* C16 (no-op after destroy), as claimed: once destroy() has been called, a
\* call of performCleanup removes no entry from the cache; stated for the
\* call that directly follows the destroy().
C16_NoOpAfterDestroy ==
  [][(last.op = "destroy" /\ last'.op = "performCleanup") => store' = store]_vars

\* C27 (cancellation): destroy() called while a periodic cleanup is in
\* flight leaves that cleanup in flight; nothing but its own next step moves
\* a cleanup in flight on, and it takes that step without an error, whether
\* or not the manager has been destroyed meanwhile; and a periodic cleanup
\* starts only while
\* the manager holds a timer handle, which destroy() sets to null and
\* which nothing but initialize() sets again.
C27_Cancellation ==
  [][/\ (last'.op = "destroy") => (sweeps' = sweeps /\ ~last'.threw)
     /\ (sweeps'.first < sweeps.first) => last'.op = "sweepExpireAge"
     /\ (sweeps'.second < sweeps.second) => last'.op = "sweepCompleted"
     /\ (last'.op \in {"sweepExpireAge", "sweepCompleted"}) => ~last'.threw
     /\ (last'.op = "timerFire") => cleanupInterval # 0
     /\ (last'.op = "destroy") => (cleanupInterval' = 0 /\ timers' = {})
     /\ (cleanupInterval = 0 /\ cleanupInterval' # 0) => last'.op = "initialize"]_vars

\* a periodic cleanup that was in flight when destroy() was called has
\* completed: the handle is null, no timer is left and none is in flight
C27_Witness ==
  /\ last.op = "sweepCompleted" /\ ~last.threw
  /\ last.handle = 0
  /\ timers = {}
  /\ sweeps = [first |-> 0, second |-> 0]

\* C28 (single timer): whatever initialize() and destroy() calls have been
\* made, at most one interval timer is active, it is the one whose handle
\* the manager holds, and none is active after a destroy().
C28_SingleTimer ==
  /\ Cardinality(timers) <= 1
  /\ timers = IF cleanupInterval = 0 THEN {} ELSE {cleanupInterval}
  /\ (last.op = "destroy") => timers = {}

\* initialize() has been called a second time on a manager that still held
\* the first timer: the second timer is the only one active
C28_Witness ==
  /\ last.op = "initialize" /\ last.held = 1
  /\ timerSeq = 2
  /\ cleanupInterval = 2
  /\ timers = {2}

\* C6 (idempotent destroy): from every manager state, never initialized,
\* initialized or destroyed, destroy() raises no error and leaves the
\* handle null and the interval it named cleared; a destroy() that follows a
\* destroy() changes nothing.
C6_IdempotentDestroy ==
  [][(last'.op = "destroy")
       => /\ ~last'.threw
          /\ cleanupInterval' = 0
          /\ cleanupInterval \notin timers'
          /\ timers' = {}
          /\ (last.op = "destroy") => UNCHANGED <<store, mgrVars>>]_vars

\* the manager was initialized twice and destroy() called twice in a row
C6_Witness ==
  /\ last.op = "destroy" /\ last.again
  /\ timerSeq = 2
  /\ cleanupInterval = 0
  /\ timers = {}

====
